---- MODULE Spec2Model ----
(***************************************************************************)
(* The reference-resolution engine of swagger-json-mcp                     *)
(* (src/src/core/SchemaResolver.ts) as a state machine.                    *)
(*                                                                         *)
(* One engine instance over one immutable document: the state is the       *)
(* instance's fields (document, cache, currentPath) plus the record of the *)
(* last public call and what it returned.  Every public method is one      *)
(* action; the recursive expander, the pointer codec and the locator are   *)
(* operators computed the way the TypeScript computes them.                *)
(*                                                                         *)
(* Beside it, the file manager (src/src/core/SwaggerManager.ts) with its   *)
(* asynchronous scanSwaggers and loadSwagger: ManagerSpec interleaves two  *)
(* calls at their await points, LiveSpec is a client that keeps calling    *)
(* loadSwagger, and CodecSpec applies the pointer codec to every short     *)
(* segment.                                                                *)
(***************************************************************************)
EXTENDS Integers, Sequences, FiniteSets, TLC

(***************************************************************************)
(* Bounds of the model.                                                    *)
(***************************************************************************)
\* explicit maxDepth options range over 0..MaxDepthOpt (plus the default)
MaxDepthOpt == 1
\* the cache is allowed to grow to this many entries before calls that
\* would add another one are no longer taken
MaxCacheEntries == 1
\* nesting of resolveSchemaRecursive calls beyond which a run counts as
\* not terminating
CallLimit == 8
\* the longest segment handed to the pointer codec
MaxLen == 3
\* the clock advances in steps of CACHE_DURATION / TicksPerDuration ms
TicksPerDuration == 2
\* the clock stops after this many steps
MaxTicks == 2

\* SchemaResolver.ts:27 and :54, `maxDepth = 10`
DefaultMaxDepth == 10

\* SwaggerManager.ts:14, `CACHE_DURATION = 60000`
CACHE_DURATION == 60000

(***************************************************************************)
(* Strings.  A string is a sequence of tokens.  The characters the code    *)
(* looks at one by one ('#', '/', '~', '0', '1') are tokens of their own;  *)
(* every other token is a run of characters that contains none of them     *)
(* ("components", "invalid", "A", a fixed piece of an error message), so   *)
(* that split, replace, startsWith and includes act on tokens exactly as   *)
(* they act on the characters.                                             *)
(***************************************************************************)
RECURSIVE ReplacePair(_, _, _, _)
\* s.replace(/ab/g, r) for a two-character pattern: leftmost matches, no
\* rescanning of what was substituted
ReplacePair(s, a, b, r) ==
  IF Len(s) = 0 THEN <<>>
  ELSE IF Len(s) >= 2 /\ s[1] = a /\ s[2] = b
       THEN <<r>> \o ReplacePair(SubSeq(s, 3, Len(s)), a, b, r)
       ELSE <<s[1]>> \o ReplacePair(Tail(s), a, b, r)

RECURSIVE ReplaceChar(_, _, _)
\* s.replace(/c/g, r) for a one-character pattern and a replacement string
ReplaceChar(s, c, r) ==
  IF Len(s) = 0 THEN <<>>
  ELSE (IF s[1] = c THEN r ELSE <<s[1]>>) \o ReplaceChar(Tail(s), c, r)

RECURSIVE split(_, _)
\* s.split(sep): the pieces between the separators, empty pieces included
split(s, sep) ==
  IF \A i \in 1..Len(s) : s[i] # sep
  THEN <<s>>
  ELSE LET i == CHOOSE k \in 1..Len(s) :
                  s[k] = sep /\ \A j \in 1..(k - 1) : s[j] # sep
       IN  <<SubSeq(s, 1, i - 1)>> \o split(SubSeq(s, i + 1, Len(s)), sep)

RECURSIVE join(_, _)
\* parts.join(sep)
join(parts, sep) ==
  IF Len(parts) = 0 THEN <<>>
  ELSE IF Len(parts) = 1 THEN parts[1]
  ELSE parts[1] \o sep \o join(Tail(parts), sep)

\* s.startsWith(p)
startsWith(s, p) == Len(s) >= Len(p) /\ SubSeq(s, 1, Len(p)) = p

\* s.includes(p)
includes(s, p) ==
  \E i \in 1..(Len(s) - Len(p) + 1) : SubSeq(s, i, i + Len(p) - 1) = p

\* arr.includes(x)
InSeq(x, arr) == \E i \in 1..Len(arr) : arr[i] = x

RECURSIVE DedupKeepsLast(_)
\* mutant of Dedup: the last occurrence of every element, in order
DedupKeepsLast(arr) ==
  IF Len(arr) = 0 THEN <<>>
  ELSE IF InSeq(Head(arr), Tail(arr)) THEN DedupKeepsLast(Tail(arr))
  ELSE <<Head(arr)>> \o DedupKeepsLast(Tail(arr))

RECURSIVE Dedup(_)
\* [...new Set(arr)]: the first occurrence of every element, in order
Dedup(arr) ==
  IF Len(arr) = 0 THEN <<>>
  ELSE LET front == Dedup(SubSeq(arr, 1, Len(arr) - 1))
           x     == arr[Len(arr)]
       IN  IF InSeq(x, front) THEN front ELSE Append(front, x)

\* const x = e; ...: the value of e, computed once, handed to what follows
With(e, F(_)) == F(e)

(***************************************************************************)
(* JavaScript values.  The document is parsed JSON: objects keep their     *)
(* keys in insertion order (Object.entries order; no key of the model is   *)
(* an integer index), and property reads see Object.prototype.             *)
(***************************************************************************)
Undefined == [t |-> "undefined"]
Null      == [t |-> "null"]
Str(s)    == [t |-> "str", s |-> s]
Bool(b)   == [t |-> "bool", b |-> b]
\* e is the sequence of the object's own <<key, value>> entries
Obj(e)    == [t |-> "obj", e |-> e]
\* a is the sequence of the array's elements
Arr(a)    == [t |-> "array", a |-> a]
\* a built-in function object such as Object.prototype.constructor
NativeFunction == [t |-> "function"]
\* String(Object), what a template literal makes of NativeFunction
NativeFunctionText == <<"function Object() { [native code] }">>

\* a one-token string, used for keys and type tags
K(w) == <<w>>

\* !!v
Truthy(v) ==
  /\ v.t \notin {"undefined", "null"}
  /\ ~(v.t = "str" /\ v.s = <<>>)
  /\ ~(v.t = "bool" /\ ~v.b)

\* the names every plain object inherits from Object.prototype; one of them
\* ("constructor") stands for all (toString, valueOf, hasOwnProperty, ...)
ObjectPrototypeKeys == {K("constructor")}

HasOwn(o, k) == o.t = "obj" /\ \E i \in 1..Len(o.e) : o.e[i][1] = k

OwnValue(o, k) == o.e[CHOOSE i \in 1..Len(o.e) : o.e[i][1] = k][2]

\* `k in o` for an object o
In(k, o) == HasOwn(o, k) \/ (o.t = "obj" /\ k \in ObjectPrototypeKeys)

\* o[k] for a value o that is neither null nor undefined
Get(o, k) ==
  IF HasOwn(o, k) THEN OwnValue(o, k)
  ELSE IF o.t = "obj" /\ k \in ObjectPrototypeKeys THEN NativeFunction
  ELSE Undefined

\* Object.keys(o) / Object.entries(o) of an object
Keys(o) == [i \in 1..Len(o.e) |-> o.e[i][1]]

\* {...o, [k]: v} where o owns k: the entry keeps its place
WithOwn(o, k, v) ==
  Obj([i \in 1..Len(o.e) |-> IF o.e[i][1] = k THEN <<k, v>> ELSE o.e[i]])

\* mutant of decodeJsonPointer: the two replacements in the other order
decodeJsonPointerTildeFirst(segment) ==
  ReplacePair(ReplacePair(segment, "~", "0", "~"), "~", "1", "/")

(***************************************************************************)
(* Pointer codec (SchemaResolver.ts 184-237).                              *)
(***************************************************************************)
decodeJsonPointer(segment) ==
  ReplacePair(ReplacePair(segment, "~", "1", "/"), "~", "0", "~")

encodeJsonPointer(segment) ==
  ReplaceChar(ReplaceChar(segment, "~", <<"~", "0">>), "/", <<"~", "1">>)

\* mutant of extractSchemaName: the last segment is returned still encoded
extractSchemaNameRaw(ref) ==
  LET parts == split(ref, "/")
  IN  parts[Len(parts)]

extractSchemaName(ref) ==
  LET parts == split(ref, "/")
  IN  decodeJsonPointer(parts[Len(parts)])

\* what a call either returns or throws
Returned(v) == [threw |-> FALSE, value |-> v, error |-> <<>>]
Thrown(msg) == [threw |-> TRUE, value |-> Undefined, error |-> msg]

InvalidFormatMessage == <<"Invalid $ref format: must start with ", "#", "/">>
InvalidPathMessage(ref) == <<"Invalid $ref path: ">> \o ref
NotFoundMessage(ref) == <<"Reference not found: ">> \o ref

\* the placeholder of lines 202-206
Placeholder(ref) ==
  Obj(<< <<K("$ref"), Str(ref)>>,
         <<K("$unresolved"), Bool(TRUE)>>,
         <<K("$error"), Str(NotFoundMessage(ref))>> >>)

\* line 198
IsInvalidPath(ref) == includes(ref, <<"/", "invalid", "/">>)

RECURSIVE WalkPath(_, _, _)
\* the loop of lines 192-209 over the remaining segments
WalkPath(current, path, ref) ==
  IF Len(path) = 0 THEN Returned(current)
  ELSE LET decodedSegment == decodeJsonPointer(Head(path))
       IN  IF ~Truthy(current) \/ current.t # "obj"
              \/ ~In(decodedSegment, current)
           THEN IF IsInvalidPath(ref)
                THEN Thrown(InvalidPathMessage(ref))
                ELSE Returned(Placeholder(ref))
           ELSE WalkPath(Get(current, decodedSegment), Tail(path), ref)

\* mutant of HasPointerPrefix: the prefix is not checked
HasPointerPrefixUnchecked(ref) == TRUE

\* line 185
HasPointerPrefix(ref) == startsWith(ref, <<"#", "/">>)

resolveRef(doc, ref) ==
  IF ~HasPointerPrefix(ref)
  THEN Thrown(InvalidFormatMessage)
  ELSE WalkPath(doc, split(SubSeq(ref, 3, Len(ref)), "/"), ref)

(***************************************************************************)
(* Schema locator (SchemaResolver.ts 278-300).  The result is a plain      *)
(* object built by assignment: a later assignment to a key replaces the    *)
(* value and keeps the key's place.                                        *)
(***************************************************************************)
\* o[k] = v on a plain object
Assign(o, k, v) ==
  IF HasOwn(o, k) THEN WithOwn(o, k, v) ELSE Obj(Append(o.e, <<k, v>>))

RECURSIVE ScanContainer(_, _, _, _)
\* one `for (const schemaName of Object.keys(container))` loop, from key i
ScanContainer(schemaMap, keys, i, prefix) ==
  IF i > Len(keys) THEN schemaMap
  ELSE LET schemaName  == keys[i]
           encodedName == encodeJsonPointer(schemaName)
       IN  ScanContainer(Assign(schemaMap, schemaName, Str(prefix \o encodedName)),
                         keys, i + 1, prefix)

\* document.components?.schemas
ComponentsSchemas(doc) ==
  LET components == Get(doc, K("components"))
  IN  IF components.t \in {"undefined", "null"} THEN Undefined
      ELSE Get(components, K("schemas"))

\* (document as any).definitions
Definitions(doc) == Get(doc, K("definitions"))

ComponentsPrefix  == <<"components", "/", "schemas", "/">>
DefinitionsPrefix == <<"definitions", "/">>

\* the container a truthy non-object value offers to Object.keys: none of
\* the documents of the model holds one
KeysOf(container) == IF container.t = "obj" THEN Keys(container) ELSE <<>>

\* mutant of scanAllSchemas: an entry already registered is kept
scanAllSchemasFirstWins(doc) ==
  LET afterComponents ==
        IF Truthy(ComponentsSchemas(doc))
        THEN ScanContainer(Obj(<<>>), KeysOf(ComponentsSchemas(doc)), 1, ComponentsPrefix)
        ELSE Obj(<<>>)
      fresh == IF Truthy(Definitions(doc))
               THEN SelectSeq(KeysOf(Definitions(doc)),
                              LAMBDA k : ~HasOwn(afterComponents, k))
               ELSE <<>>
  IN  ScanContainer(afterComponents, fresh, 1, DefinitionsPrefix)

scanAllSchemas(doc) ==
  LET afterComponents ==
        IF Truthy(ComponentsSchemas(doc))
        THEN ScanContainer(Obj(<<>>), KeysOf(ComponentsSchemas(doc)), 1, ComponentsPrefix)
        ELSE Obj(<<>>)
  IN  IF Truthy(Definitions(doc))
      THEN ScanContainer(afterComponents, KeysOf(Definitions(doc)), 1, DefinitionsPrefix)
      ELSE afterComponents

(***************************************************************************)
(* Reference expander (SchemaResolver.ts 111-182).  The accumulators the   *)
(* code mutates in place (dependencies, circularReferences and the         *)
(* instance field currentPath) are threaded through as acc; an exception   *)
(* leaves them as they were when it was thrown.                            *)
(***************************************************************************)
Acc(dependencies, circularReferences, path) ==
  [dependencies |-> dependencies, circularReferences |-> circularReferences,
   currentPath |-> path]

\* how one call of the expander ends: it returns value, it throws error, or
\* it is still recursing at the call limit
Done(v, acc)      == [kind |-> "return",  value |-> v, error |-> <<>>, acc |-> acc]
Raised(msg, acc)  == [kind |-> "throw",   value |-> Undefined, error |-> msg, acc |-> acc]
Diverged(acc)     == [kind |-> "diverge", value |-> Undefined, error |-> <<>>, acc |-> acc]

\* reading a property of null or undefined
NullReadMessage == <<"Cannot read properties of null (reading '$ref')">>
\* calling .split on a $ref that is not a string
NotAStringMessage == <<"ref.split is not a function">>

CycleSeparator == <<" -> ">>

\* mutant of RefOutcome: neither guard returns
RefOutcomeUnguarded(currentDepth, maxDepth, path, refName) == "follow"

\* mutant of RefOutcome: the active path is not consulted
RefOutcomeNoCycle(currentDepth, maxDepth, path, refName) ==
  IF currentDepth >= maxDepth THEN "limit" ELSE "follow"

\* mutant of RefOutcome: the active path is consulted before the depth
RefOutcomeCycleFirst(currentDepth, maxDepth, path, refName) ==
  IF InSeq(refName, path) THEN "cycle"
  ELSE IF currentDepth >= maxDepth THEN "limit"
  ELSE "follow"

\* lines 124-133: what happens to a reference after its name was recorded
RefOutcome(currentDepth, maxDepth, path, refName) ==
  IF currentDepth >= maxDepth THEN "limit"
  ELSE IF InSeq(refName, path) THEN "cycle"
  ELSE "follow"

\* Object.entries(schema.properties)
PropertyEntries(properties) ==
  IF properties.t = "obj" THEN properties.e ELSE <<>>

RECURSIVE resolveSchemaRecursive(_, _, _, _, _, _)
RECURSIVE ResolveEntries(_, _, _, _, _, _, _)

\* the loop of lines 153-161 from entry i on; value is the sequence of the
\* entries resolved so far
ResolveEntries(doc, entries, i, currentDepth, maxDepth, acc, level) ==
  IF i > Len(entries) THEN Done(<<>>, acc)
  ELSE With(resolveSchemaRecursive(doc, entries[i][2], currentDepth, maxDepth,
                                   acc, level + 1),
         LAMBDA one :
           IF one.kind # "return" THEN one
           ELSE With(ResolveEntries(doc, entries, i + 1, currentDepth, maxDepth,
                                    one.acc, level),
                  LAMBDA rest :
                    IF rest.kind # "return" THEN rest
                    ELSE Done(<< <<entries[i][1], one.value>> >> \o rest.value,
                              rest.acc)))

\* mutant of FollowRef: the target is expanded at the depth of the reference
FollowRefSameDepth(doc, ref, refName, currentDepth, maxDepth, acc1, level) ==
  With([acc1 EXCEPT !.currentPath = Append(@, refName)],
    LAMBDA acc2 :
      With(resolveRef(doc, ref),
        LAMBDA referencedSchema :
          IF referencedSchema.threw
          THEN Raised(referencedSchema.error, acc2)
          ELSE With(resolveSchemaRecursive(doc, referencedSchema.value,
                                           currentDepth, maxDepth, acc2,
                                           level + 1),
                 LAMBDA resolved :
                   IF resolved.kind # "return" THEN resolved
                   ELSE Done(resolved.value,
                             [resolved.acc EXCEPT !.currentPath =
                                SubSeq(@, 1, Len(@) - 1)]))))

\* lines 135-148: the reference is followed
FollowRef(doc, ref, refName, currentDepth, maxDepth, acc1, level) ==
  With([acc1 EXCEPT !.currentPath = Append(@, refName)],
    LAMBDA acc2 :
      With(resolveRef(doc, ref),
        LAMBDA referencedSchema :
          IF referencedSchema.threw
          THEN Raised(referencedSchema.error, acc2)
          ELSE With(resolveSchemaRecursive(doc, referencedSchema.value,
                                           currentDepth + 1, maxDepth, acc2,
                                           level + 1),
                 LAMBDA resolved :
                   IF resolved.kind # "return" THEN resolved
                   ELSE Done(resolved.value,
                             [resolved.acc EXCEPT !.currentPath =
                                SubSeq(@, 1, Len(@) - 1)]))))

\* lines 119-133: the name is recorded, then the depth and the active path
\* decide
VisitRef(doc, schema, ref, refName, currentDepth, maxDepth, acc, level) ==
  With([acc EXCEPT !.dependencies = Append(@, refName)],
    LAMBDA acc1 :
      With(RefOutcome(currentDepth, maxDepth, acc.currentPath, refName),
        LAMBDA outcome :
          IF outcome = "limit" THEN Done(schema, acc1)
          ELSE IF outcome = "cycle"
          THEN Done(schema,
                    [acc1 EXCEPT !.circularReferences =
                       Append(@, join(Append(acc.currentPath, refName),
                                      CycleSeparator))])
          ELSE FollowRef(doc, ref, refName, currentDepth, maxDepth, acc1, level)))

resolveSchemaRecursive(doc, schema, currentDepth, maxDepth, acc, level) ==
  IF level > CallLimit THEN Diverged(acc)
  ELSE IF schema.t \in {"null", "undefined"} THEN Raised(NullReadMessage, acc)
  ELSE IF Truthy(Get(schema, K("$ref")))
  THEN \* lines 118-149
       With(Get(schema, K("$ref")),
         LAMBDA ref :
           IF ref.t # "str" THEN Raised(NotAStringMessage, acc)
           ELSE VisitRef(doc, schema, ref.s, extractSchemaName(ref.s),
                         currentDepth, maxDepth, acc, level))
  ELSE IF Get(schema, K("type")) = Str(K("object"))
          /\ Truthy(Get(schema, K("properties")))
  THEN \* lines 151-166
       With(ResolveEntries(doc, PropertyEntries(Get(schema, K("properties"))), 1,
                           currentDepth, maxDepth, acc, level),
         LAMBDA resolvedProperties :
           IF resolvedProperties.kind # "return" THEN resolvedProperties
           ELSE Done(WithOwn(schema, K("properties"),
                             Obj(resolvedProperties.value)),
                     resolvedProperties.acc))
  ELSE IF Get(schema, K("type")) = Str(K("array"))
          /\ Truthy(Get(schema, K("items")))
  THEN \* lines 168-179
       With(resolveSchemaRecursive(doc, Get(schema, K("items")), currentDepth,
                                   maxDepth, acc, level + 1),
         LAMBDA items :
           IF items.kind # "return" THEN items
           ELSE Done(WithOwn(schema, K("items"), items.value), items.acc))
  ELSE Done(schema, acc)

(***************************************************************************)
(* Results and the result cache (SchemaResolver.ts 8-14, 18, 26-109).      *)
(***************************************************************************)
\* a ResolveResult; an absent schema or error is Undefined
Result(success, schema, dependencies, circularReferences, error) ==
  [success |-> success, schema |-> schema, dependencies |-> dependencies,
   circularReferences |-> circularReferences, error |-> error]

Failure(msg) == Result(FALSE, Undefined, <<>>, <<>>, Str(msg))

RECURSIVE Digits(_)
\* `${n}` for an integer n >= 0
Digits(n) ==
  IF n < 10 THEN <<ToString(n)>> ELSE Digits(n \div 10) \o <<ToString(n % 10)>>

\* lines 28 and 55: `${target}-${maxDepth}-${includeCircular}`
CacheKey(target, maxDepth, includeCircular) ==
  target \o <<"-">> \o Digits(maxDepth)
         \o <<"-", IF includeCircular THEN "true" ELSE "false">>

\* new Map()
EmptyCache == [k \in {} |-> Undefined]

\* cache.has(key)
CacheHas(c, key) == key \in DOMAIN c

\* cache.set(key, value)
CacheSet(c, key, value) ==
  [k \in (DOMAIN c) \cup {key} |-> IF k = key THEN value ELSE c[k]]

\* what a public resolve call leaves behind: the result it returns (when it
\* returns), the fields of the instance after it, whether the result was
\* taken from the cache, and the currentPath a traversal began with
Outcome(result, c, path, hit, returns) ==
  [result |-> result, cache |-> c, currentPath |-> path, hit |-> hit,
   returns |-> returns, began |-> <<>>]

\* line 73
UnresolvedMessage(schema, ref) ==
  IF Truthy(Get(schema, K("$error")))
  THEN Get(schema, K("$error")).s
  ELSE <<"Reference \"">> \o ref \o <<"\" not found">>

\* lines 61-108, the computation behind a cache miss: the result, the
\* currentPath it leaves in the instance, and whether it returns at all
Computation(result, path, returns) ==
  [result |-> result, currentPath |-> path, returns |-> returns]

\* lines 90-98 and 99-108: the result made of what the expander did
Finish(resolvedSchema) ==
  IF resolvedSchema.kind = "diverge"
  THEN Computation(Undefined, resolvedSchema.acc.currentPath, FALSE)
  ELSE IF resolvedSchema.kind = "throw"
  THEN Computation(Failure(resolvedSchema.error),
                   resolvedSchema.acc.currentPath, TRUE)
  ELSE Computation(Result(TRUE, resolvedSchema.value,
                          Dedup(resolvedSchema.acc.dependencies),
                          Dedup(resolvedSchema.acc.circularReferences),
                          Undefined),
                   resolvedSchema.acc.currentPath, TRUE)

\* mutant of ResetPath: the path of the call before is kept
ResetPathKept(path) == path

\* line 63: this.currentPath = []
ResetPath(path) == <<>>

\* lines 65-108 for a traversal that begins with currentPath = start
ComputeByRef(doc, ref, maxDepth, start) ==
  With(resolveRef(doc, ref),
    LAMBDA schema :
      IF schema.threw
      THEN Computation(Failure(schema.error), start, TRUE)
      ELSE IF schema.value.t \in {"null", "undefined"}
      THEN Computation(Failure(NullReadMessage), start, TRUE)
      ELSE IF Truthy(Get(schema.value, K("$unresolved")))
      THEN Computation(Failure(UnresolvedMessage(schema.value, ref)), start, TRUE)
      ELSE Finish(resolveSchemaRecursive(doc, schema.value, 0, maxDepth,
                    Acc(<<extractSchemaName(ref)>>, <<>>, start), 1)))

\* `#/${schemaPath}` of line 50
PointerTo(schemaPath) ==
  <<"#", "/">> \o (IF schemaPath.t = "str" THEN schemaPath.s ELSE NativeFunctionText)

(***************************************************************************)
(* Documents.  Each is a parsed swagger file of the kind the repository's  *)
(* tests build; a schema name is a string, so a name with '/' or '~' is a  *)
(* sequence of several tokens.                                             *)
(***************************************************************************)
TypeOnly(tag) == Obj(<< <<K("type"), Str(K(tag))>> >>)

ObjectOf(properties) ==
  Obj(<< <<K("type"), Str(K("object"))>>, <<K("properties"), Obj(properties)>> >>)

ArrayOf(items) ==
  Obj(<< <<K("type"), Str(K("array"))>>, <<K("items"), items>> >>)

\* { $ref: '#/components/schemas/<segment>' }
ComponentRef(segment) ==
  Obj(<< <<K("$ref"), Str(<<"#", "/">> \o ComponentsPrefix \o segment)>> >>)

\* { $ref: '#/definitions/<segment>' }
DefinitionRef(segment) ==
  Obj(<< <<K("$ref"), Str(<<"#", "/">> \o DefinitionsPrefix \o segment)>> >>)

Header == << <<K("openapi"), Str(<<"3.", "0", ".", "0">>)>>, <<K("paths"), Obj(<<>>)>> >>

OpenApiDoc(schemas) ==
  Obj(Header \o << <<K("components"), Obj(<< <<K("schemas"), Obj(schemas)>> >>)>> >>)

SwaggerDoc(definitions) ==
  Obj(Header \o << <<K("definitions"), Obj(definitions)>> >>)

MixedDoc(schemas, definitions) ==
  Obj(Header \o << <<K("components"), Obj(<< <<K("schemas"), Obj(schemas)>> >>)>>,
                   <<K("definitions"), Obj(definitions)>> >>)

\* the fixture of the resolver's tests: User -> Profile -> Settings
DocChain ==
  OpenApiDoc(<<
    <<K("User"), ObjectOf(<< <<K("id"), TypeOnly("number")>>,
                             <<K("profile"), ComponentRef(K("Profile"))>> >>)>>,
    <<K("Profile"), ObjectOf(<< <<K("bio"), TypeOnly("string")>>,
                                <<K("settings"), ComponentRef(K("Settings"))>> >>)>>,
    <<K("Settings"), ObjectOf(<< <<K("theme"), TypeOnly("string")>> >>)>> >>)

\* the fixture's cycle CircularA <-> CircularB, and a schema that lists itself
DocCircular ==
  OpenApiDoc(<<
    <<K("CircularA"), ObjectOf(<< <<K("id"), TypeOnly("string")>>,
                                  <<K("b"), ComponentRef(K("CircularB"))>> >>)>>,
    <<K("CircularB"), ObjectOf(<< <<K("id"), TypeOnly("string")>>,
                                  <<K("a"), ComponentRef(K("CircularA"))>> >>)>>,
    <<K("Tree"), ObjectOf(<< <<K("children"),
                               ArrayOf(ComponentRef(K("Tree")))>> >>)>> >>)

\* the fixture with a reference to a schema that does not exist, and one
\* whose missing target has a pointer that runs through /invalid/
DocDangling ==
  OpenApiDoc(<<
    <<K("Invalid"), ObjectOf(<< <<K("ref"), ComponentRef(K("NonExistentSchema"))>>,
                                <<K("ok"), ComponentRef(K("Plain"))>> >>)>>,
    <<K("Broken"), ObjectOf(<<
        <<K("ok"), ComponentRef(K("Plain"))>>,
        <<K("bad"), Obj(<< <<K("$ref"), Str(<<"#", "/", "invalid", "/", "Plain">>)>> >>)>> >>)>>,
    <<K("Plain"), ObjectOf(<< <<K("id"), TypeOnly("string")>> >>)>> >>)

\* one name in both containers
DocBoth ==
  MixedDoc(
    << <<K("Pet"), ObjectOf(<< <<K("name"), TypeOnly("string")>> >>)>>,
       <<K("Shop"), ObjectOf(<< <<K("pet"), ComponentRef(K("Pet"))>> >>)>> >>,
    << <<K("Pet"), ObjectOf(<< <<K("tag"), TypeOnly("number")>> >>)>>,
       <<K("Owner"), ObjectOf(<< <<K("pet"), DefinitionRef(K("Pet"))>> >>)>> >>)

\* names that need escaping: "a/b", "x~y" and "~1"
DocNames ==
  OpenApiDoc(<<
    << <<"a", "/", "b">>,
       ObjectOf(<< <<K("t"), ComponentRef(<<"x", "~", "0", "y">>)>> >>)>>,
    << <<"x", "~", "y">>, TypeOnly("string")>>,
    << <<"~", "1">>,
       ObjectOf(<< <<K("v"), ComponentRef(<<"a", "~", "1", "b">>)>> >>)>> >>)

\* a mapping with properties and no type tag, a null property, an array, and
\* a schema that meets Plain, then List, then Plain again
DocShapes ==
  OpenApiDoc(<<
    <<K("Loose"), Obj(<< <<K("properties"),
                         Obj(<< <<K("r"), ComponentRef(K("Plain"))>> >>)>> >>)>>,
    <<K("Nullable"), ObjectOf(<< <<K("n"), Null>> >>)>>,
    <<K("List"), ArrayOf(ComponentRef(K("Plain")))>>,
    <<K("Pair"), ObjectOf(<< <<K("first"), ComponentRef(K("Plain"))>>,
                             <<K("list"), ComponentRef(K("List"))>>,
                             <<K("second"), ComponentRef(K("Plain"))>> >>)>>,
    <<K("Plain"), ObjectOf(<< <<K("id"), TypeOnly("string")>> >>)>> >>)

\* a Swagger 2 document: definitions only
DocSwagger2 ==
  SwaggerDoc(<<
    <<K("Order"), ObjectOf(<< <<K("item"), DefinitionRef(K("Item"))>> >>)>>,
    <<K("Item"), ObjectOf(<< <<K("sku"), TypeOnly("string")>> >>)>> >>)

Docs == {DocChain, DocCircular, DocDangling, DocBoth, DocNames, DocShapes,
         DocSwagger2}

(***************************************************************************)
(* Arguments of the calls.                                                 *)
(***************************************************************************)
SeqToSet(q) == {q[i] : i \in 1..Len(q)}

\* scanAllSchemas tabulated over the documents of the model
ScanTable == [d \in Docs |-> scanAllSchemas(d)]

\* scanAllSchemas(doc), read from the table where it has it
Scanned(doc) == IF doc \in Docs THEN ScanTable[doc] ELSE scanAllSchemas(doc)

\* the names scanAllSchemas finds in doc
SchemaNames(doc) == SeqToSet(Keys(Scanned(doc)))

\* a name no document defines
MissingName == K("Missing")

\* a pointer to a schema no document defines
MissingPointer == <<"#", "/">> \o ComponentsPrefix \o MissingName

\* the strings a caller passes as a name or as a pointer: the schema names,
\* the pointers to them, a name that leads nowhere, and a name every object
\* inherits
TargetsOf(doc) ==
  SchemaNames(doc)
    \cup {PointerTo(Get(Scanned(doc), n)) : n \in SchemaNames(doc)}
    \cup {MissingName, K("constructor")}

TargetsTable == [d \in Docs |-> TargetsOf(d)]

Targets(doc) == TargetsTable[doc]

\* the pointers resolveRef is called with: to the schemas, to nothing, to
\* nodes that are no schemas, and through /invalid/
PointersOf(doc) ==
  {PointerTo(Get(Scanned(doc), n)) : n \in SchemaNames(doc)} \cup
    { MissingName, MissingPointer,
      <<"#", "/", "invalid", "/", "Missing">>,
      <<"#", "/", "constructor">>,
      <<"#", "/", "openapi", "/", "x">> }

PointersTable == [d \in Docs |-> PointersOf(d)]

Pointers(doc) == PointersTable[doc]

DepthOptions == (0..MaxDepthOpt) \cup {DefaultMaxDepth}

\* the options of a resolve call after defaulting (lines 27 and 54): every
\* depth with includeCircular left at true, and includeCircular: false with
\* the default depth and with depth 0
Options ==
  {[maxDepth |-> d, includeCircular |-> TRUE] : d \in DepthOptions}
    \cup {[maxDepth |-> d, includeCircular |-> FALSE] : d \in {0, DefaultMaxDepth}}

(***************************************************************************)
(* The two cached entry points (SchemaResolver.ts 26-109).                 *)
(***************************************************************************)
\* the pointers a resolve call can be made with or can build for doc
RefArguments(doc) ==
  Targets(doc) \cup
    {PointerTo(Get(Scanned(doc), t)) :
       t \in {u \in Targets(doc) : Truthy(Get(Scanned(doc), u))}}

\* ComputeByRef tabulated over the documents and arguments of the model
ComputedTable ==
  [d \in Docs |-> [ref \in RefArguments(d) |->
     [maxDepth \in DepthOptions |-> ComputeByRef(d, ref, maxDepth, <<>>)]]]

\* ComputeByRef(doc, ref, maxDepth, start), read from the table where it
\* has it
Computed(doc, ref, maxDepth, start) ==
  IF /\ start = <<>>
     /\ doc \in Docs /\ maxDepth \in DepthOptions /\ ref \in DOMAIN ComputedTable[doc]
  THEN ComputedTable[doc][ref][maxDepth]
  ELSE ComputeByRef(doc, ref, maxDepth, start)

\* lines 61-108 with the cache.set of lines 75, 97 and 106
Miss(c, cacheKey, computed, began) ==
  [Outcome(computed.result,
           IF computed.returns THEN CacheSet(c, cacheKey, computed.result) ELSE c,
           computed.currentPath, FALSE, computed.returns)
     EXCEPT !.began = began]

\* lines 57-59 and what follows them
Lookup(doc, c, path, ref, maxDepth, cacheKey) ==
  IF CacheHas(c, cacheKey)
  THEN Outcome(c[cacheKey], c, path, TRUE, TRUE)
  ELSE Miss(c, cacheKey, Computed(doc, ref, maxDepth, ResetPath(path)),
            ResetPath(path))

\* mutant of resolveSchemaByRef: without includeCircular nothing is followed
resolveSchemaByRefFlagged(doc, c, path, ref, maxDepth, includeCircular) ==
  Lookup(doc, c, path, ref, IF includeCircular THEN maxDepth ELSE 0,
         CacheKey(ref, maxDepth, includeCircular))

resolveSchemaByRef(doc, c, path, ref, maxDepth, includeCircular) ==
  Lookup(doc, c, path, ref, maxDepth, CacheKey(ref, maxDepth, includeCircular))

\* line 43
SchemaNotFoundMessage(schemaName) ==
  <<"Schema \"">> \o schemaName \o <<"\" not found", " in any location">>

\* lines 38-47
NotFound(c, path, cacheKey, result) ==
  Outcome(result, CacheSet(c, cacheKey, result), path, FALSE, TRUE)

\* lines 34-50
Locate(doc, c, path, schemaName, maxDepth, includeCircular, cacheKey, schemaPath) ==
  IF ~Truthy(schemaPath)
  THEN NotFound(c, path, cacheKey, Failure(SchemaNotFoundMessage(schemaName)))
  ELSE resolveSchemaByRef(doc, c, path, PointerTo(schemaPath), maxDepth,
                          includeCircular)

resolveSchema(doc, c, path, schemaName, maxDepth, includeCircular) ==
  IF CacheHas(c, CacheKey(schemaName, maxDepth, includeCircular))
  THEN Outcome(c[CacheKey(schemaName, maxDepth, includeCircular)], c, path,
               TRUE, TRUE)
  ELSE Locate(doc, c, path, schemaName, maxDepth, includeCircular,
              CacheKey(schemaName, maxDepth, includeCircular),
              Get(Scanned(doc), schemaName))

(***************************************************************************)
(* The engine.                                                             *)
(***************************************************************************)
(***************************************************************************)
(* getDependencies: the names a schema refers to, directly or through      *)
(* others.  The traversal threads the dependencies array and the visited   *)
(* set; it ends by returning or by throwing a TypeError.                   *)
(***************************************************************************)
Deps(dependencies, visited) ==
  [threw |-> FALSE, dependencies |-> dependencies, visited |-> visited, error |-> <<>>]

DepsRaised(msg) ==
  [threw |-> TRUE, dependencies |-> <<>>, visited |-> {}, error |-> msg]

\* this.document.components?.schemas?.[name]
DependencySchema(doc, name) ==
  IF ComponentsSchemas(doc).t \in {"undefined", "null"} THEN Undefined
  ELSE Get(ComponentsSchemas(doc), name)

RECURSIVE extractDependencies(_, _, _)
RECURSIVE ExtractValues(_, _, _, _)

\* lines 254-263: a reference not seen before is recorded and followed
ExtractRef(doc, refName, d) ==
  IF refName \in d.visited THEN d
  ELSE IF Truthy(DependencySchema(doc, refName))
  THEN extractDependencies(doc, DependencySchema(doc, refName),
                           Deps(Append(d.dependencies, refName), d.visited \cup {refName}))
  ELSE Deps(Append(d.dependencies, refName), d.visited \cup {refName})

\* for (const prop of Object.values(schema.properties)) ...
ExtractValues(doc, entries, i, d) ==
  IF i > Len(entries) THEN d
  ELSE ExtractValues(doc, entries, i + 1, extractDependencies(doc, entries[i][2], d))

\* lines 267-271
ExtractProperties(doc, schema, d) ==
  IF Get(schema, K("type")) = Str(K("object")) /\ Truthy(Get(schema, K("properties")))
  THEN ExtractValues(doc, PropertyEntries(Get(schema, K("properties"))), 1, d)
  ELSE d

\* lines 273-275
ExtractItems(doc, schema, d) ==
  IF d.threw THEN d
  ELSE IF Get(schema, K("type")) = Str(K("array")) /\ Truthy(Get(schema, K("items")))
  THEN extractDependencies(doc, Get(schema, K("items")), d)
  ELSE d

extractDependencies(doc, schema, d) ==
  IF d.threw THEN d
  ELSE IF schema.t \in {"undefined", "null"} THEN DepsRaised(NullReadMessage)
  ELSE IF Truthy(Get(schema, K("$ref")))
  THEN (IF Get(schema, K("$ref")).t # "str" THEN DepsRaised(NotAStringMessage)
        ELSE ExtractRef(doc, extractSchemaName(Get(schema, K("$ref")).s), d))
  ELSE ExtractItems(doc, schema, ExtractProperties(doc, schema, d))

\* what getDependencies returns once the traversal has ended
Collected(d) ==
  IF d.threw THEN Thrown(d.error) ELSE Returned(Arr(Dedup(d.dependencies)))

getDependencies(doc, schemaName) ==
  IF ~Truthy(DependencySchema(doc, schemaName)) THEN Returned(Arr(<<>>))
  ELSE Collected(extractDependencies(doc, DependencySchema(doc, schemaName), Deps(<<>>, {})))

(***************************************************************************)
(* getAllSchemas: the schemas of both containers in one fresh mapping.     *)
(* Its outcome is the mapping returned and the document as the call        *)
(* leaves it.                                                              *)
(***************************************************************************)
RECURSIVE CollectEntries(_, _, _)
\* one `for (const [name, schema] of Object.entries(container))` loop
CollectEntries(allSchemas, entries, i) ==
  IF i > Len(entries) THEN allSchemas
  ELSE CollectEntries(Assign(allSchemas, entries[i][1], entries[i][2]), entries, i + 1)

\* lines 313-317: the entries of definitions, when there are any
CollectDefinitions(doc, allSchemas) ==
  IF Truthy(Definitions(doc))
  THEN CollectEntries(allSchemas, PropertyEntries(Definitions(doc)), 1)
  ELSE allSchemas

\* mutant of getAllSchemas: allSchemas starts as components.schemas itself,
\* so the entries of definitions are assigned into the document
getAllSchemasShared(doc) ==
  IF Truthy(ComponentsSchemas(doc))
  THEN [value    |-> CollectDefinitions(doc, ComponentsSchemas(doc)),
        document |-> WithOwn(doc, K("components"),
                       WithOwn(Get(doc, K("components")), K("schemas"),
                               CollectDefinitions(doc, ComponentsSchemas(doc))))]
  ELSE [value |-> CollectDefinitions(doc, Obj(<<>>)), document |-> doc]

getAllSchemas(doc) ==
  [value    |-> CollectDefinitions(doc,
                  IF Truthy(ComponentsSchemas(doc))
                  THEN CollectEntries(Obj(<<>>), PropertyEntries(ComponentsSchemas(doc)), 1)
                  ELSE Obj(<<>>)),
   document |-> doc]

VARIABLES document, cache, currentPath, last

\* the file manager (SwaggerManager.ts): the swagger files on disk, the
\* manager's fields, the clock, and the asynchronous calls in progress
VARIABLES files, swaggers, parsers, lastScanTime, now, calls

engine == <<document, cache, currentPath, last>>

manager == <<files, swaggers, parsers, lastScanTime, now, calls>>

vars == <<engine, manager>>

\* no file manager beside the engine: its fields as constructed, no files
NoManager ==
  /\ files = <<>>
  /\ swaggers = <<>>
  /\ parsers = <<>>
  /\ lastScanTime = 0
  /\ now = CACHE_DURATION
  /\ calls = <<>>

\* the record of the last public call; a resolve call also records the
\* currentPath it found in the instance (before) and the currentPath its
\* traversal began with (began)
Call(op, target, maxDepth, includeCircular, hit, returns, threw, result, value, error) ==
  [op |-> op, target |-> target, maxDepth |-> maxDepth,
   includeCircular |-> includeCircular, hit |-> hit, returns |-> returns,
   threw |-> threw, result |-> result, value |-> value, error |-> error,
   before |-> <<>>, began |-> <<>>]

NoCall == Call("new", <<>>, 0, TRUE, FALSE, TRUE, FALSE, Undefined, Undefined, <<>>)

\* new SchemaResolver(document)
Init ==
  /\ document \in Docs
  /\ cache = EmptyCache
  /\ currentPath = <<>>
  /\ last = NoCall
  /\ NoManager

\* no call is in progress: the caller has taken the last result
Idle == last.op = "new"

\* a call that adds to a full cache is not taken
Fits(c) == c = cache \/ Cardinality(DOMAIN c) <= MaxCacheEntries

ResolveSchema ==
  /\ Idle
  /\ UNCHANGED manager
  /\ \E schemaName \in Targets(document), options \in Options :
       \E o \in {resolveSchema(document, cache, currentPath, schemaName,
                              options.maxDepth, options.includeCircular)} :
           /\ Fits(o.cache)
           /\ cache' = o.cache
           /\ currentPath' = o.currentPath
           /\ last' = [Call("resolveSchema", schemaName, options.maxDepth,
                            options.includeCircular, o.hit, o.returns, FALSE,
                            o.result, Undefined, <<>>)
                          EXCEPT !.before = currentPath, !.began = o.began]
           /\ UNCHANGED document

ResolveSchemaByRef ==
  /\ Idle
  /\ UNCHANGED manager
  /\ \E ref \in Targets(document), options \in Options :
       \E o \in {resolveSchemaByRef(document, cache, currentPath, ref,
                                   options.maxDepth, options.includeCircular)} :
           /\ Fits(o.cache)
           /\ cache' = o.cache
           /\ currentPath' = o.currentPath
           /\ last' = [Call("resolveSchemaByRef", ref, options.maxDepth,
                            options.includeCircular, o.hit, o.returns, FALSE,
                            o.result, Undefined, <<>>)
                          EXCEPT !.before = currentPath, !.began = o.began]
           /\ UNCHANGED document

ResolveRef ==
  /\ Idle
  /\ UNCHANGED manager
  /\ \E ref \in Pointers(document) :
       \E r \in {resolveRef(document, ref)} :
           /\ last' = Call("resolveRef", ref, 0, TRUE, FALSE, TRUE, r.threw,
                           Undefined, r.value, r.error)
           /\ UNCHANGED <<document, cache, currentPath>>

ScanAllSchemas ==
  /\ Idle
  /\ UNCHANGED manager
  /\ last' = Call("scanAllSchemas", <<>>, 0, TRUE, FALSE, TRUE, FALSE,
                  Undefined, scanAllSchemas(document), <<>>)
  /\ UNCHANGED <<document, cache, currentPath>>

GetDependencies ==
  /\ Idle
  /\ UNCHANGED manager
  /\ \E schemaName \in Targets(document) :
       \E r \in {getDependencies(document, schemaName)} :
           /\ last' = Call("getDependencies", schemaName, 0, TRUE, FALSE, TRUE, r.threw,
                           Undefined, r.value, r.error)
           /\ UNCHANGED <<document, cache, currentPath>>

GetAllSchemas ==
  /\ Idle
  /\ UNCHANGED manager
  /\ \E r \in {getAllSchemas(document)} :
       /\ last' = Call("getAllSchemas", <<>>, 0, TRUE, FALSE, TRUE, FALSE,
                       Undefined, r.value, <<>>)
       /\ document' = r.document
       /\ UNCHANGED <<cache, currentPath>>

ClearCache ==
  /\ Idle
  /\ UNCHANGED manager
  /\ cache # EmptyCache
  /\ cache' = EmptyCache
  /\ UNCHANGED <<document, currentPath, last>>

\* the caller takes the result of a call that returned
Return ==
  /\ ~Idle
  /\ UNCHANGED manager
  /\ last.returns
  /\ last' = NoCall
  /\ UNCHANGED <<document, cache, currentPath>>

Next ==
  \/ ResolveSchema
  \/ ResolveSchemaByRef
  \/ ResolveRef
  \/ ScanAllSchemas
  \/ GetDependencies
  \/ GetAllSchemas
  \/ ClearCache
  \/ Return

Spec == Init /\ [][Next]_vars

(***************************************************************************)
(* What the properties below are stated with: the document read directly,  *)
(* through own keys only, and the texts the specification quotes.          *)
(***************************************************************************)
ResolveOps == {"resolveSchema", "resolveSchemaByRef"}

\* the last call was a resolve call that computed its result: neither its
\* own cache lookup nor the one it delegates to found an entry
Computes == last.op \in ResolveOps /\ ~last.hit

\* the string begins with the two characters '#/'
StartsWithHashSlash(s) == Len(s) >= 2 /\ s[1] = "#" /\ s[2] = "/"

RECURSIVE OwnWalk(_, _)
\* the node a path of decoded segments leads to, through own keys of objects
OwnWalk(current, path) ==
  IF Len(path) = 0 THEN [found |-> TRUE, node |-> current]
  ELSE IF HasOwn(current, Head(path))
       THEN OwnWalk(OwnValue(current, Head(path)), Tail(path))
       ELSE [found |-> FALSE, node |-> Undefined]

\* the decoded segments of a pointer that begins with '#/'
Segments(pointer) ==
  LET raw == split(SubSeq(pointer, 3, Len(pointer)), "/")
  IN  [i \in 1..Len(raw) |-> decodeJsonPointer(raw[i])]

\* the node of the document a pointer designates, when there is one
TargetOf(doc, pointer) ==
  IF StartsWithHashSlash(pointer) THEN OwnWalk(doc, Segments(pointer))
  ELSE [found |-> FALSE, node |-> Undefined]

\* the own keys of a schema container, none when the container is absent
ContainerKeys(container) ==
  IF container.t = "obj" THEN SeqToSet(Keys(container)) ELSE {}

\* the schema the index registers under a name it holds
RequestedSchema(doc, name) ==
  TargetOf(doc, PointerTo(OwnValue(Scanned(doc), name))).node

\* v is a reference node: a mapping with a $ref key
IsReference(v) == HasOwn(v, K("$ref"))

RECURSIVE RefsIn(_)
\* the pointers of all reference nodes anywhere inside v
RefsIn(v) ==
  IF v.t # "obj" THEN {}
  ELSE (IF IsReference(v) /\ OwnValue(v, K("$ref")).t = "str"
        THEN {OwnValue(v, K("$ref")).s} ELSE {})
         \cup UNION {RefsIn(v.e[i][2]) : i \in 1..Len(v.e)}

RECURSIVE HasRefNode(_)
\* some node anywhere inside v is a reference node
HasRefNode(v) ==
  /\ v.t = "obj"
  /\ (IsReference(v) \/ \E i \in 1..Len(v.e) : HasRefNode(v.e[i][2]))

RECURSIVE ChainWithin(_, _, _)
\* every chain of references that starts inside node ends after at most n
\* references, each of them at a node of the document: the reference graph
\* reachable from node is acyclic, every target exists, and the longest
\* chain has at most n references
ChainWithin(doc, node, n) ==
  \A r \in RefsIn(node) :
    /\ n >= 1
    /\ TargetOf(doc, r).found
    /\ ChainWithin(doc, TargetOf(doc, r).node, n - 1)

\* the property entries of an object schema
PropertiesOf(node) ==
  IF HasOwn(node, K("properties")) /\ OwnValue(node, K("properties")).t = "obj"
  THEN OwnValue(node, K("properties")).e
  ELSE <<>>

\* v is a reference whose target is not in the document
IsDangling(doc, v) ==
  /\ IsReference(v)
  /\ OwnValue(v, K("$ref")).t = "str"
  /\ ~TargetOf(doc, OwnValue(v, K("$ref")).s).found

\* 'Invalid $ref format: must start with #/'
FormatErrorText == <<"Invalid $ref format: must start with ", "#", "/">>

\* what a fresh engine over the same document returns for the last call
FreshResult ==
  IF last.op = "resolveSchema"
  THEN resolveSchema(document, EmptyCache, <<>>, last.target, last.maxDepth,
                     last.includeCircular).result
  ELSE resolveSchemaByRef(document, EmptyCache, <<>>, last.target, last.maxDepth,
                          last.includeCircular).result

(***************************************************************************)
(* Properties.                                                             *)
(***************************************************************************)
\* C1: when the reference graph reachable from the requested schema is
\* acyclic, every reference target exists and the longest chain has at most
\* maxDepth references, resolveSchema(name, {maxDepth}) succeeds and the
\* schema it returns holds no reference node anywhere.
C1_FullyInlined ==
  (/\ last.op = "resolveSchema"
   /\ ~last.hit
   /\ HasOwn(Scanned(document), last.target)
   /\ ChainWithin(document, RequestedSchema(document, last.target), last.maxDepth))
  => /\ last.returns
     /\ last.result.success
     /\ ~HasRefNode(last.result.schema)

C3_Terminates == last.op \in ResolveOps => last.returns

\* C3 happens: a schema that references itself was resolved with
\* includeCircular false, and the call came back with the cycle reported
C3_Witness ==
  /\ document = DocCircular
  /\ last.op = "resolveSchema"
  /\ ~last.hit
  /\ last.target = K("Tree")
  /\ ~last.includeCircular
  /\ last.returns
  /\ last.result.circularReferences # <<>>

\* C4: after any sequence of resolveSchema, resolveSchemaByRef and clearCache
\* calls, every resolve call returns what a freshly constructed engine
\* returns for the same call.
C4_CacheFaithful ==
  (last.op \in ResolveOps /\ last.returns) => last.result = FreshResult

\* C5: for a pointer that starts with '#/' and whose path is not in the
\* document, resolveRef returns the placeholder {$ref, $unresolved: true,
\* $error: 'Reference not found: <pointer>'} and does not throw.
C5_PlaceholderNotThrown ==
  (/\ last.op = "resolveRef"
   /\ StartsWithHashSlash(last.target)
   /\ ~TargetOf(document, last.target).found)
  => /\ ~last.threw
     /\ last.value =
          Obj(<< <<K("$ref"), Str(last.target)>>,
                 <<K("$unresolved"), Bool(TRUE)>>,
                 <<K("$error"), Str(<<"Reference not found: ">> \o last.target)>> >>)

\* C6: a reference nested inside the requested schema whose target does not
\* exist never fails the call: resolveSchema succeeds, the reference is
\* replaced in place by the placeholder, and every sibling property is
\* resolved as it is on its own.
C6_DanglingDegrades ==
  (/\ last.op = "resolveSchema"
   /\ ~last.hit
   /\ last.maxDepth >= 1
   /\ HasOwn(Scanned(document), last.target)
   /\ Get(RequestedSchema(document, last.target), K("type")) = Str(K("object"))
   /\ \E i \in 1..Len(PropertiesOf(RequestedSchema(document, last.target))) :
        IsDangling(document,
                   PropertiesOf(RequestedSchema(document, last.target))[i][2]))
  => /\ last.returns
     /\ last.result.success
     /\ LET props == PropertiesOf(RequestedSchema(document, last.target))
            out   == PropertiesOf(last.result.schema)
        IN  /\ Len(out) = Len(props)
            /\ \A i \in 1..Len(props) :
                 /\ out[i][1] = props[i][1]
                 /\ out[i][2] =
                      IF IsDangling(document, props[i][2])
                      THEN Obj(<< <<K("$ref"), props[i][2].e[1][2]>>,
                                  <<K("$unresolved"), Bool(TRUE)>>,
                                  <<K("$error"),
                                    Str(<<"Reference not found: ">>
                                          \o props[i][2].e[1][2].s)>> >>)
                      ELSE resolveSchemaRecursive(document, props[i][2], 0,
                             last.maxDepth, Acc(<<>>, <<>>, <<>>), 1).value

C8_UnknownName ==
  (/\ last.op = "resolveSchema"
   /\ ~last.hit
   /\ last.target \notin ContainerKeys(ComponentsSchemas(document))
   /\ last.target \notin ContainerKeys(Definitions(document)))
  => /\ last.returns
     /\ ~last.result.success
     /\ last.result.schema = Undefined
     /\ last.result.dependencies = <<>>
     /\ last.result.circularReferences = <<>>
     /\ last.result.error.t = "str"
     /\ includes(last.result.error.s,
                 <<"Schema \"">> \o last.target \o <<"\" not found">>)

\* C9: whenever resolveSchema(name) returns success=true for a schema name
\* of the index, dependencies[0] is name exactly, also for names that contain
\* '/' or '~'; a result taken from the cache is no exception.
C9_RootFirst ==
  (/\ last.op = "resolveSchema"
   /\ HasOwn(Scanned(document), last.target)
   /\ last.returns
   /\ last.result.success)
  => /\ Len(last.result.dependencies) >= 1
     /\ last.result.dependencies[1] = last.target

\* C9 happens: the schema named "a/b" was resolved
C9_Witness ==
  /\ document = DocNames
  /\ last.op = "resolveSchema"
  /\ last.target = <<"a", "/", "b">>
  /\ last.returns
  /\ last.result.success

NameOf(pointer) ==
  With(split(pointer, "/"), LAMBDA parts : decodeJsonPointer(parts[Len(parts)]))

RECURSIVE RefsThrough(_)
RECURSIVE RefsThroughEntries(_, _)
\* the pointers of the reference nodes met from v through properties of
\* object schemas and items of array schemas, in document order, without
\* following any of them
RefsThrough(v) ==
  IF v.t # "obj" THEN <<>>
  ELSE IF IsReference(v)
  THEN (IF OwnValue(v, K("$ref")).t = "str" THEN <<OwnValue(v, K("$ref")).s>>
        ELSE <<>>)
  ELSE IF Get(v, K("type")) = Str(K("object")) /\ HasOwn(v, K("properties"))
  THEN RefsThroughEntries(PropertiesOf(v), 1)
  ELSE IF Get(v, K("type")) = Str(K("array")) /\ HasOwn(v, K("items"))
  THEN RefsThrough(OwnValue(v, K("items")))
  ELSE <<>>

RefsThroughEntries(entries, i) ==
  IF i > Len(entries) THEN <<>>
  ELSE RefsThrough(entries[i][2]) \o RefsThroughEntries(entries, i + 1)

\* the first occurrence of every element of a sequence, in order
FirstOccurrences(q) ==
  SelectSeq([i \in 1..Len(q) |-> <<i, q[i]>>],
            LAMBDA p : \A j \in 1..(p[1] - 1) : q[j] # p[2])

\* the sequence q without its positions
Unindexed(q) == [i \in 1..Len(q) |-> q[i][2]]

\* the names of a sequence of pointers
NamesOf(pointers) == [i \in 1..Len(pointers) |-> NameOf(pointers[i])]

\* C11: with maxDepth = 0, resolveSchema succeeds, every reference node
\* reached from the root schema through properties and items is left in the
\* output exactly as it is in the document, and dependencies is the root
\* name followed by the names of those references, in first-encountered
\* order, without duplicates.
C11_DepthZero ==
  (/\ last.op = "resolveSchema"
   /\ ~last.hit
   /\ last.maxDepth = 0
   /\ HasOwn(Scanned(document), last.target))
  => /\ last.returns
     /\ last.result.success
     /\ last.result.schema = RequestedSchema(document, last.target)
     /\ last.result.dependencies =
          Unindexed(FirstOccurrences(
            <<last.target>>
              \o NamesOf(RefsThrough(RequestedSchema(document, last.target)))))

\* what a fresh engine returns for the last call made with the other value
\* of includeCircular
FlippedResult ==
  IF last.op = "resolveSchema"
  THEN resolveSchema(document, EmptyCache, <<>>, last.target, last.maxDepth,
                     ~last.includeCircular).result
  ELSE resolveSchemaByRef(document, EmptyCache, <<>>, last.target, last.maxDepth,
                          ~last.includeCircular).result

\* C12: for every target and every maxDepth, resolving with
\* includeCircular=false and with includeCircular=true on fresh engines
\* gives the same success flag, the same schema and the same dependencies.
C12_FlagIndifferent ==
  Computes =>
    /\ last.returns
    /\ last.result.success = FlippedResult.success
    /\ last.result.schema = FlippedResult.schema
    /\ last.result.dependencies = FlippedResult.dependencies

\* C12 happens: a schema on a cycle was resolved with includeCircular false
C12_Witness ==
  /\ document = DocCircular
  /\ Computes
  /\ last.target = K("CircularA")
  /\ ~last.includeCircular
  /\ last.maxDepth = DefaultMaxDepth
  /\ last.result.success

\* a sequence in which nothing occurs twice
NoDuplicates(q) == \A i, j \in 1..Len(q) : q[i] = q[j] => i = j

\* C13: getDependencies(name) returns a sequence without duplicates that
\* never contains name itself, schemas on a cycle and schemas that refer to
\* themselves included.
C13_NotItself ==
  (last.op = "getDependencies" /\ ~last.threw)
    => /\ NoDuplicates(last.value.a)
       /\ ~InSeq(last.target, last.value.a)

RECURSIVE Reach(_, _, _)
RECURSIVE ReachEntries(_, _, _, _)

\* the names met from node v, added to seen in the order met: a reference
\* is followed to the schema the index holds for its name, once
Reach(doc, v, seen) ==
  IF v.t # "obj" THEN seen
  ELSE IF IsReference(v)
  THEN (IF OwnValue(v, K("$ref")).t # "str" THEN seen
        ELSE IF InSeq(NameOf(OwnValue(v, K("$ref")).s), seen) THEN seen
        ELSE IF HasOwn(Scanned(doc), NameOf(OwnValue(v, K("$ref")).s))
        THEN Reach(doc, RequestedSchema(doc, NameOf(OwnValue(v, K("$ref")).s)),
                   Append(seen, NameOf(OwnValue(v, K("$ref")).s)))
        ELSE Append(seen, NameOf(OwnValue(v, K("$ref")).s)))
  ELSE IF Get(v, K("type")) = Str(K("object")) /\ HasOwn(v, K("properties"))
  THEN ReachEntries(doc, PropertiesOf(v), 1, seen)
  ELSE IF Get(v, K("type")) = Str(K("array")) /\ HasOwn(v, K("items"))
  THEN Reach(doc, OwnValue(v, K("items")), seen)
  ELSE seen

ReachEntries(doc, entries, i, seen) ==
  IF i > Len(entries) THEN seen
  ELSE ReachEntries(doc, entries, i + 1, Reach(doc, entries[i][2], seen))

\* the names reachable from the named schema by one or more references
ReachableNames(doc, name) == Reach(doc, RequestedSchema(doc, name), <<>>)

\* C14: for every name of the index of scanAllSchemas, whichever container
\* holds it, getDependencies(name) returns exactly the names reachable from
\* that schema by one or more references through properties and items, in
\* the order first met, and returns nothing only for a schema without
\* references.
C14_TransitiveClosure ==
  (last.op = "getDependencies" /\ HasOwn(Scanned(document), last.target))
    => /\ ~last.threw
       /\ last.value.a = ReachableNames(document, last.target)
       /\ (last.value.a = <<>>
             => RefsThrough(RequestedSchema(document, last.target)) = <<>>)

(***************************************************************************)
(* The pointer codec on its own: every segment of up to MaxLen characters  *)
(* drawn from '~', '/', '0', '1' and a letter is encoded or decoded.       *)
(***************************************************************************)
CodecTokens == {"~", "/", "0", "1", "a"}

CodecSegments == UNION {[1..n -> CodecTokens] : n \in 0..MaxLen}

CodecInit ==
  /\ document = DocNames
  /\ cache = EmptyCache
  /\ currentPath = <<>>
  /\ last = NoCall
  /\ NoManager

EncodeJsonPointer ==
  /\ Idle
  /\ UNCHANGED manager
  /\ \E segment \in CodecSegments :
       last' = Call("encodeJsonPointer", segment, 0, TRUE, FALSE, TRUE, FALSE,
                    Undefined, Str(encodeJsonPointer(segment)), <<>>)
  /\ UNCHANGED <<document, cache, currentPath>>

DecodeJsonPointer ==
  /\ Idle
  /\ UNCHANGED manager
  /\ \E segment \in CodecSegments :
       last' = Call("decodeJsonPointer", segment, 0, TRUE, FALSE, TRUE, FALSE,
                    Undefined, Str(decodeJsonPointer(segment)), <<>>)
  /\ UNCHANGED <<document, cache, currentPath>>

CodecNext ==
  \/ EncodeJsonPointer
  \/ DecodeJsonPointer
  \/ Return

CodecSpec == CodecInit /\ [][CodecNext]_vars

\* C15: decodeJsonPointer(encodeJsonPointer(s)) = s for every string s,
\* strings that contain '~', '/', '~0' or '~1' included, and the encoded
\* form never contains '/'.
C15_RoundTrip ==
  last.op = "encodeJsonPointer"
    => /\ decodeJsonPointer(last.value.s) = last.target
       /\ ~includes(last.value.s, <<"/">>)

\* C15 happens: a segment that holds an escape sequence and a slash was
\* encoded
C15_Witness ==
  /\ last.op = "encodeJsonPointer"
  /\ last.target = <<"~", "1", "/">>
  /\ last.value = Str(<<"~", "0", "1", "~", "1">>)

\* C16: no operation of the engine (resolveSchema, resolveSchemaByRef,
\* resolveRef, getDependencies, scanAllSchemas, getAllSchemas, clearCache)
\* changes the document: every step leaves it as it was.
C16_DocumentUntouched == [][document' = document]_vars

\* C16 happens: schemas were resolved and cached, and getAllSchemas has
\* merged the two containers of a document that has both
C16_Witness ==
  /\ document = DocBoth
  /\ cache # EmptyCache
  /\ last.op = "getAllSchemas"
  /\ Keys(last.value) = <<K("Pet"), K("Shop"), K("Owner")>>

(***************************************************************************)
(* The file manager (SwaggerManager.ts) with the parser's loader and the   *)
(* file utilities it calls.  scanSwaggers and loadSwagger are asynchronous: *)
(* a call runs up to its next await in one step, other calls run while it  *)
(* waits, and its continuation is a later step.  A call in progress is a   *)
(* frame: its method, its argument, where it waits (pc), its local         *)
(* variables (now, swaggerFiles, the loop position i) and, once it has     *)
(* settled, the value it resolved to or the error it rejected with.        *)
(* Every file of the directory stays in it; a file's content can change.   *)
(***************************************************************************)
\* a file that cannot be read, one that holds no JSON, one that holds JSON
Unreadable  == [readable |-> FALSE, parses |-> FALSE, document |-> Undefined]
NotJson     == [readable |-> TRUE,  parses |-> FALSE, document |-> Undefined]
JsonFile(d) == [readable |-> TRUE,  parses |-> TRUE,  document |-> d]

Version1 == <<"1.", "0", ".", "0">>
Version2 == <<"2.", "0", ".", "0">>

InfoOf(version) ==
  <<K("info"), Obj(<< <<K("title"), Str(K("Swagger One API"))>>,
                      <<K("version"), Str(version)>> >>)>>

\* { openapi, paths, info }
ApiDoc(version) == Obj(Header \o <<InfoOf(version)>>)
\* documents without info, without paths, without a version field
NoInfoDoc    == Obj(Header)
NoPathsDoc   == Obj(<<Header[1], InfoOf(Version1)>>)
NoVersionDoc == Obj(<<Header[2], InfoOf(Version1)>>)

\* the names of the files of docs/swaggers, in the order of localeCompare
SwaggerNames == <<"swagger-one", "swagger-two">>

FileSystem(one, two) == [n \in {"swagger-one", "swagger-two"} |->
                           IF n = "swagger-one" THEN one ELSE two]

FileSystems ==
  { FileSystem(JsonFile(ApiDoc(Version1)), JsonFile(ApiDoc(Version1))),
    FileSystem(JsonFile(ApiDoc(Version1)), NotJson),
    FileSystem(Unreadable, JsonFile(ApiDoc(Version1))),
    FileSystem(JsonFile(NoPathsDoc), JsonFile(NoVersionDoc)),
    FileSystem(JsonFile(NoInfoDoc), JsonFile(ApiDoc(Version1))) }

\* the names loadSwagger is called with
LoadNames == {"swagger-one", "swagger-two"}

\* the calls that can be in progress at once: a first and a second
CallIds == {1, 2}

\* scanSwaggerFiles(): the .json files of the directory, sorted by name
scanSwaggerFiles(fs) == SelectSeq(SwaggerNames, LAMBDA n : n \in DOMAIN fs)

ReadFailedMessage(name) == <<"Failed to read JSON file: ", name>>
MissingVersionMessage == <<"Invalid Swagger/OpenAPI document: missing version field">>
MissingPathsMessage   == <<"Invalid Swagger/OpenAPI document: missing paths">>
NoInfoMessage == <<"Cannot read properties of undefined (reading 'title')">>
SwaggerNotFoundMessage(name) == <<"Swagger \"", name, "\" not found">>
ScanFailedMessage == <<"Failed to scan swagger files">>

\* readJsonFile(filePath): readFile, then JSON.parse
readJsonFile(name, file) ==
  IF file.readable /\ file.parses THEN Returned(file.document)
  ELSE Thrown(ReadFailedMessage(name))

\* a SwaggerParser that has loaded document
Parser(d) == [t |-> "parser", document |-> d]

\* mutant of SwaggerParserLoadSwagger: paths is not asked for
SwaggerParserLoadSwaggerAnyPaths(name, file) ==
  IF readJsonFile(name, file).threw THEN readJsonFile(name, file)
  ELSE IF /\ ~Truthy(Get(readJsonFile(name, file).value, K("openapi")))
          /\ ~Truthy(Get(readJsonFile(name, file).value, K("swagger")))
  THEN Thrown(MissingVersionMessage)
  ELSE Returned(Parser(readJsonFile(name, file).value))

\* SwaggerParser.loadSwagger(filePath) on a new parser
SwaggerParserLoadSwagger(name, file) ==
  IF readJsonFile(name, file).threw THEN readJsonFile(name, file)
  ELSE IF /\ ~Truthy(Get(readJsonFile(name, file).value, K("openapi")))
          /\ ~Truthy(Get(readJsonFile(name, file).value, K("swagger")))
  THEN Thrown(MissingVersionMessage)
  ELSE IF ~Truthy(Get(readJsonFile(name, file).value, K("paths")))
  THEN Thrown(MissingPathsMessage)
  ELSE Returned(Parser(readJsonFile(name, file).value))

\* the SwaggerInfo of lines 44-53; apiCount, schemaCount and description
\* are read from the same document, fileName and lastModified from the
\* directory entry
SwaggerInfo(name, info) ==
  [name |-> name, title |-> Get(info, K("title")), version |-> Get(info, K("version"))]

\* lines 38-56: what one turn of the loop has for the two maps, or the
\* error its catch logs
LoadFile(name, file) ==
  IF SwaggerParserLoadSwagger(name, file).threw THEN SwaggerParserLoadSwagger(name, file)
  ELSE IF Get(SwaggerParserLoadSwagger(name, file).value.document, K("info")).t
            \in {"undefined", "null"}
  THEN Thrown(NoInfoMessage)
  ELSE Returned([info   |-> SwaggerInfo(name,
                              Get(SwaggerParserLoadSwagger(name, file).value.document, K("info"))),
                 parser |-> SwaggerParserLoadSwagger(name, file).value])

\* a Map as the sequence of its <<key, value>> entries in insertion order
MapHas(m, k) == \E i \in 1..Len(m) : m[i][1] = k
MapGet(m, k) == m[CHOOSE i \in 1..Len(m) : m[i][1] = k][2]
MapSet(m, k, v) ==
  IF MapHas(m, k) THEN [i \in 1..Len(m) |-> IF m[i][1] = k THEN <<k, v>> ELSE m[i]]
  ELSE Append(m, <<k, v>>)
MapValues(m) == [i \in 1..Len(m) |-> m[i][2]]
MapKeys(m) == [i \in 1..Len(m) |-> m[i][1]]

\* mutant of UseCache: a cache exactly CACHE_DURATION old is still used
UseCacheInclusive(size, t, scanned) == size > 0 /\ t - scanned <= CACHE_DURATION

\* line 23: this.swaggers.size > 0 && now - this.lastScanTime < this.CACHE_DURATION
UseCache(size, t, scanned) == size > 0 /\ t - scanned < CACHE_DURATION

\* a call in progress.  alone is bookkeeping for the properties: no other
\* call was made and no file changed since this call was made
Frame(op, swaggerName, pc, startedAt, swaggerFiles, i, alone, threw, value, error) ==
  [op |-> op, swaggerName |-> swaggerName, pc |-> pc, now |-> startedAt,
   swaggerFiles |-> swaggerFiles, i |-> i, alone |-> alone,
   threw |-> threw, value |-> value, error |-> error]

Free == Frame("none", "", "free", 0, <<>>, 0, TRUE, FALSE, Undefined, <<>>)

Resolved(f, v) == [f EXCEPT !.pc = "done", !.value = v]
Rejected(f, msg) == [f EXCEPT !.pc = "done", !.threw = TRUE, !.error = msg]

HasFree == \E c \in DOMAIN calls : calls[c].pc = "free"

FreeSlot ==
  CHOOSE c \in DOMAIN calls :
    calls[c].pc = "free" /\ \A d \in 1..(c - 1) : calls[d].pc # "free"

Quiet == \A c \in DOMAIN calls : calls[c].pc = "free"

Disturbed ==
  [c \in DOMAIN calls |->
     IF calls[c].pc = "free" THEN calls[c] ELSE [calls[c] EXCEPT !.alone = FALSE]]

\* lines 20-31: scanSwaggers up to its first await, called at time now by
\* the call f
ScanStarted(f) ==
  IF UseCache(Len(swaggers), now, lastScanTime)
  THEN (IF f.op = "scanSwaggers" THEN Resolved(f, Arr(MapValues(swaggers)))
        ELSE [f EXCEPT !.pc = "resume"])
  ELSE [f EXCEPT !.pc = "readdir", !.now = now]

\* lines 64-67: the scan of call f ends with the values of swaggers
ScanEnded(f, values) ==
  IF f.op = "scanSwaggers" THEN Resolved(f, Arr(values))
  ELSE [f EXCEPT !.pc = "resume"]

ManagerInit ==
  /\ document = DocChain
  /\ cache = EmptyCache
  /\ currentPath = <<>>
  /\ last = NoCall
  /\ files \in FileSystems
  /\ swaggers = <<>>
  /\ parsers = <<>>
  /\ lastScanTime = 0
  /\ now = CACHE_DURATION
  /\ calls = [c \in CallIds |-> Free]

\* scanSwaggers() is called
ScanSwaggers ==
  /\ HasFree
  /\ calls' = [Disturbed EXCEPT ![FreeSlot] =
                 ScanStarted(Frame("scanSwaggers", "", "call", 0, <<>>, 0, Quiet,
                                   FALSE, Undefined, <<>>))]
  /\ UNCHANGED <<files, swaggers, parsers, lastScanTime, now>>
  /\ UNCHANGED engine

\* loadSwagger(swaggerName) is called: lines 79-85
LoadSwaggerCall(swaggerName) ==
  /\ HasFree
  /\ calls' = [Disturbed EXCEPT ![FreeSlot] =
                 IF MapHas(parsers, swaggerName)
                 THEN Resolved(Frame("loadSwagger", swaggerName, "call", 0, <<>>, 0, Quiet,
                                     FALSE, Undefined, <<>>),
                               MapGet(parsers, swaggerName))
                 ELSE ScanStarted(Frame("loadSwagger", swaggerName, "call", 0, <<>>, 0,
                                        Quiet, FALSE, Undefined, <<>>))]
  /\ UNCHANGED <<files, swaggers, parsers, lastScanTime, now>>
  /\ UNCHANGED engine

LoadSwagger == \E swaggerName \in LoadNames : LoadSwaggerCall(swaggerName)

\* mutant of AfterReaddir: the maps are cleared before the directory is read
AfterReaddirCleared(map, failed) == <<>>

\* lines 31-34: a map of the manager once `await scanSwaggerFiles()` has
\* settled; clear() is reached only when it resolved
AfterReaddir(map, failed) == IF failed THEN map ELSE <<>>

\* `await scanSwaggerFiles()` has resolved: lines 31-39, or 64-67 when the
\* directory holds no file
ScanFilesResolved ==
  /\ \E c \in DOMAIN calls :
       /\ calls[c].pc = "readdir"
       /\ swaggers' = AfterReaddir(swaggers, FALSE)
       /\ parsers' = AfterReaddir(parsers, FALSE)
       /\ IF Len(scanSwaggerFiles(files)) = 0
          THEN /\ lastScanTime' = calls[c].now
               /\ calls' = [calls EXCEPT ![c] = ScanEnded(calls[c], <<>>)]
          ELSE /\ calls' = [calls EXCEPT ![c].pc = "load", ![c].i = 1,
                                         ![c].swaggerFiles = scanSwaggerFiles(files)]
               /\ UNCHANGED lastScanTime
  /\ UNCHANGED <<files, now>>
  /\ UNCHANGED engine

\* `await scanSwaggerFiles()` has rejected, the directory could not be read:
\* lines 68-71; a loadSwagger call waiting at line 85 rejects with the same
\* error
ScanFilesRejected ==
  /\ \E c \in DOMAIN calls :
       /\ calls[c].pc = "readdir"
       /\ swaggers' = AfterReaddir(swaggers, TRUE)
       /\ parsers' = AfterReaddir(parsers, TRUE)
       /\ calls' = [calls EXCEPT ![c] = Rejected(calls[c], ScanFailedMessage)]
  /\ UNCHANGED <<files, lastScanTime, now>>
  /\ UNCHANGED engine

\* `await parser.loadSwagger(file.path)` has settled for the file at i:
\* lines 41-62, then the next file or lines 64-67
FileLoaded ==
  /\ \E c \in DOMAIN calls :
       /\ calls[c].pc = "load"
       /\ \E r \in {LoadFile(calls[c].swaggerFiles[calls[c].i],
                             files[calls[c].swaggerFiles[calls[c].i]])} :
            /\ swaggers' = IF r.threw THEN swaggers
                           ELSE MapSet(swaggers, calls[c].swaggerFiles[calls[c].i], r.value.info)
            /\ parsers' = IF r.threw THEN parsers
                          ELSE MapSet(parsers, calls[c].swaggerFiles[calls[c].i], r.value.parser)
       /\ IF calls[c].i < Len(calls[c].swaggerFiles)
          THEN /\ calls' = [calls EXCEPT ![c].i = calls[c].i + 1]
               /\ UNCHANGED lastScanTime
          ELSE /\ lastScanTime' = calls[c].now
               /\ calls' = [calls EXCEPT ![c] = ScanEnded(calls[c], MapValues(swaggers'))]
  /\ UNCHANGED <<files, now>>
  /\ UNCHANGED engine

\* `await this.scanSwaggers()` of loadSwagger has resolved: lines 87-94
LoadResumed ==
  /\ \E c \in DOMAIN calls :
       /\ calls[c].pc = "resume"
       /\ calls' = [calls EXCEPT ![c] =
                      IF MapHas(parsers, calls[c].swaggerName)
                      THEN Resolved(calls[c], MapGet(parsers, calls[c].swaggerName))
                      ELSE Rejected(calls[c], SwaggerNotFoundMessage(calls[c].swaggerName))]
  /\ UNCHANGED <<files, swaggers, parsers, lastScanTime, now>>
  /\ UNCHANGED engine

\* the caller takes what a settled call resolved to or rejected with
Settled ==
  /\ \E c \in DOMAIN calls :
       /\ calls[c].pc = "done"
       /\ calls' = [calls EXCEPT ![c] = Free]
  /\ UNCHANGED <<files, swaggers, parsers, lastScanTime, now>>
  /\ UNCHANGED engine

\* the length of one step of the clock
TickLength == CACHE_DURATION \div TicksPerDuration

\* time passes: Date.now() grows
Tick ==
  /\ now < CACHE_DURATION + MaxTicks * TickLength
  /\ now' = now + TickLength
  /\ UNCHANGED <<files, swaggers, parsers, lastScanTime, calls>>
  /\ UNCHANGED engine

\* the content of a swagger file on disk changes to a new version
ChangeFile ==
  /\ \E n \in DOMAIN files :
       /\ files[n] = JsonFile(ApiDoc(Version1))
       /\ files' = [files EXCEPT ![n] = JsonFile(ApiDoc(Version2))]
  /\ calls' = Disturbed
  /\ UNCHANGED <<swaggers, parsers, lastScanTime, now>>
  /\ UNCHANGED engine

ManagerNext ==
  \/ ScanSwaggers
  \/ LoadSwagger
  \/ ScanFilesResolved
  \/ ScanFilesRejected
  \/ FileLoaded
  \/ LoadResumed
  \/ Settled
  \/ Tick
  \/ ChangeFile

ManagerSpec == ManagerInit /\ [][ManagerNext]_vars

\* a client that calls loadSwagger again and again, for every name, each
\* call after the one before has settled, while the event loop runs every
\* continuation that is ready and time passes
SequentialLoad(swaggerName) == Quiet /\ LoadSwaggerCall(swaggerName)

LiveNext ==
  \/ \E swaggerName \in LoadNames : SequentialLoad(swaggerName)
  \/ ScanFilesResolved
  \/ FileLoaded
  \/ LoadResumed
  \/ Settled
  \/ Tick
  \/ ChangeFile

LiveSpec ==
  /\ ManagerInit
  /\ [][LiveNext]_vars
  /\ WF_vars(ScanFilesResolved)
  /\ WF_vars(FileLoaded)
  /\ WF_vars(LoadResumed)
  /\ WF_vars(Settled)
  /\ WF_vars(Tick)
  /\ \A swaggerName \in LoadNames : SF_vars(SequentialLoad(swaggerName))

\* every file holds the first version of a valid document: with ChangeFile
\* the only change there is, no file has changed yet
AllValidUnchanged == \A n \in DOMAIN files : files[n] = JsonFile(ApiDoc(Version1))

\* the SwaggerInfo of a file that holds ApiDoc(version)
InfoFor(name, version) == SwaggerInfo(name, Get(ApiDoc(version), K("info")))

\* C17: the manager is safe under concurrency: with a fixed set of valid
\* files, under every interleaving of scanSwaggers and loadSwagger calls at
\* their await points, every scanSwaggers resolves to the list of all files
\* (in whatever order) and every loadSwagger(name) resolves to the parser
\* of that file and never rejects.
C17_ThreadSafe ==
  AllValidUnchanged =>
    \A c \in CallIds :
      calls[c].pc = "done" =>
        IF calls[c].op = "scanSwaggers"
        THEN /\ ~calls[c].threw
             /\ Len(calls[c].value.a) = Len(SwaggerNames)
             /\ \A i \in 1..Len(SwaggerNames) :
                  \E j \in 1..Len(calls[c].value.a) :
                    calls[c].value.a[j] = InfoFor(SwaggerNames[i], Version1)
        ELSE /\ ~calls[c].threw
             /\ calls[c].value = Parser(ApiDoc(Version1))

\* C18: changed files are picked up without clearCache: once a file holds
\* a new version and CACHE_DURATION has passed since the last scan ended,
\* the loadSwagger calls for it lead to one that resolves to a parser
\* holding the new version.
C18_Reloads ==
  \A n \in LoadNames :
    (/\ files[n] = JsonFile(ApiDoc(Version2))
     /\ lastScanTime > 0
     /\ now - lastScanTime >= CACHE_DURATION)
      ~> (\E c \in CallIds :
            /\ calls[c].pc = "done"
            /\ calls[c].op = "loadSwagger"
            /\ calls[c].swaggerName = n
            /\ calls[c].value = Parser(ApiDoc(Version2)))

\* C19: a scanSwaggers call made while swaggers is not empty and less than
\* 60000 ms have passed since lastScanTime resolves to the cached list and
\* leaves swaggers, parsers and lastScanTime as they are; made at 60000 ms
\* or later, or with an empty swaggers, it scans the directory again.
C19_CacheWindow ==
  [][\A c \in CallIds :
       (calls[c].pc = "free" /\ calls'[c].op = "scanSwaggers") =>
         IF Len(swaggers) > 0 /\ now - lastScanTime < 60000
         THEN /\ calls'[c].pc = "done"
              /\ ~calls'[c].threw
              /\ calls'[c].value = Arr(MapValues(swaggers))
              /\ UNCHANGED <<swaggers, parsers, lastScanTime>>
         ELSE calls'[c].pc = "readdir"]_vars

\* C19 happens: a scanSwaggers call made exactly CACHE_DURATION after the
\* last scan, with a list cached, is scanning the directory
C19_Witness ==
  \E c \in CallIds :
    /\ calls[c].op = "scanSwaggers"
    /\ calls[c].pc = "readdir"
    /\ calls[c].alone
    /\ Len(swaggers) > 0
    /\ lastScanTime > 0
    /\ calls[c].now - lastScanTime = CACHE_DURATION

\* a file the scan can load: it can be read, holds JSON, the document has a
\* version field and paths, and has the info the list entry is made from
Loadable(file) ==
  /\ file.readable
  /\ file.parses
  /\ (Truthy(Get(file.document, K("openapi"))) \/ Truthy(Get(file.document, K("swagger"))))
  /\ Truthy(Get(file.document, K("paths")))
  /\ Get(file.document, K("info")).t = "obj"

LoadableNames == SelectSeq(SwaggerNames, LAMBDA n : Loadable(files[n]))

InfoNames(list) == [i \in 1..Len(list) |-> list[i].name]

Expansion(schema, met, cycles) == [schema |-> schema, met |-> met, cycles |-> cycles]

RECURSIVE Expand(_, _, _, _, _, _)
RECURSIVE ExpandEntries(_, _, _, _, _, _, _)

\* the reference v at pointer ref, its name already met
ExpandRef(doc, v, ref, name, budget, path, met, cycles) ==
  IF budget = 0 THEN Expansion(v, met, cycles)
  ELSE IF InSeq(name, path)
  THEN Expansion(v, met, Append(cycles, join(Append(path, name), CycleSeparator)))
  ELSE Expand(doc,
              IF TargetOf(doc, ref).found THEN TargetOf(doc, ref).node
              ELSE Placeholder(ref),
              budget - 1, Append(path, name), met, cycles)

Expand(doc, v, budget, path, met, cycles) ==
  IF v.t # "obj" THEN Expansion(v, met, cycles)
  ELSE IF IsReference(v) /\ OwnValue(v, K("$ref")).t = "str"
  THEN ExpandRef(doc, v, OwnValue(v, K("$ref")).s, NameOf(OwnValue(v, K("$ref")).s),
                 budget, path, Append(met, NameOf(OwnValue(v, K("$ref")).s)), cycles)
  ELSE IF Get(v, K("type")) = Str(K("object")) /\ HasOwn(v, K("properties"))
  THEN With(ExpandEntries(doc, PropertiesOf(v), 1, budget, path, met, cycles),
         LAMBDA x : Expansion(WithOwn(v, K("properties"), Obj(x.schema)),
                              x.met, x.cycles))
  ELSE IF Get(v, K("type")) = Str(K("array")) /\ HasOwn(v, K("items"))
  THEN With(Expand(doc, OwnValue(v, K("items")), budget, path, met, cycles),
         LAMBDA x : Expansion(WithOwn(v, K("items"), x.schema), x.met, x.cycles))
  ELSE Expansion(v, met, cycles)

\* the entries from i on, each expanded with the same budget
ExpandEntries(doc, entries, i, budget, path, met, cycles) ==
  IF i > Len(entries) THEN Expansion(<<>>, met, cycles)
  ELSE With(Expand(doc, entries[i][2], budget, path, met, cycles),
         LAMBDA one :
           With(ExpandEntries(doc, entries, i + 1, budget, path, one.met, one.cycles),
             LAMBDA rest :
               Expansion(<< <<entries[i][1], one.schema>> >> \o rest.schema,
                         rest.met, rest.cycles)))

\* the pointer the last resolve call expands
RootPointer ==
  IF last.op = "resolveSchema"
  THEN PointerTo(OwnValue(Scanned(document), last.target))
  ELSE last.target

\* the last call was a resolve call that computed its result for a schema
\* of the document, returned and succeeded
Expanded ==
  /\ Computes
  /\ last.op = "resolveSchema" => HasOwn(Scanned(document), last.target)
  /\ TargetOf(document, RootPointer).found
  /\ last.returns
  /\ last.result.success

\* the expansion of the last call's schema, read off the document
Expected ==
  Expand(document, TargetOf(document, RootPointer).node, last.maxDepth, <<>>,
         <<NameOf(RootPointer)>>, <<>>)

C23_DepthBeforeCycle ==
  Expanded =>
    With(Expected,
      LAMBDA x : /\ SeqToSet(last.result.circularReferences) = SeqToSet(x.cycles)
                 /\ last.result.schema = x.schema
                 /\ last.maxDepth = 0 => last.result.circularReferences = <<>>)

\* C23 happens: Tree, whose items refer to Tree, was expanded with maxDepth
\* 1; the inner reference was met at depth 1 with Tree on the active path,
\* it was left as it is and nothing was diagnosed
C23_Witness ==
  /\ document = DocCircular
  /\ Expanded
  /\ last.target = K("Tree")
  /\ last.maxDepth = 1
  /\ last.result.circularReferences = <<>>
  /\ RefsIn(last.result.schema) = {<<"#", "/">> \o ComponentsPrefix \o K("Tree")}

C25_PathReset ==
  (Computes /\ last.returns) =>
    /\ last.began = <<>>
    /\ last.result = FreshResult
    /\ last.result.success => currentPath = <<>>

\* C25 happens: a call that ended with an error part-way through a traversal
\* left a name on currentPath, and the next call that missed the cache
\* expanded its schema and left currentPath empty
C25_Witness ==
  /\ Expanded
  /\ last.before # <<>>
  /\ last.began = <<>>
  /\ HasRefNode(TargetOf(document, RootPointer).node)
  /\ currentPath = <<>>

\* v is an object-typed mapping with properties
IsObjectSchema(v) ==
  v.t = "obj" /\ Get(v, K("type")) = Str(K("object")) /\ HasOwn(v, K("properties"))

\* v is an array-typed mapping with items
IsArraySchema(v) ==
  v.t = "obj" /\ Get(v, K("type")) = Str(K("array")) /\ HasOwn(v, K("items"))

\* v is none of the three shapes the expander works on: a scalar, null, or
\* a mapping of another shape
OtherNode(v) ==
  ~(v.t = "obj" /\ IsReference(v)) /\ ~IsObjectSchema(v) /\ ~IsArraySchema(v)

\* the expander meets no reference in v: v is another node, or an object
\* schema or array schema whose members are other nodes
OnlyOtherNodes(v) ==
  \/ OtherNode(v)
  \/ /\ IsObjectSchema(v)
     /\ \A i \in 1..Len(PropertiesOf(v)) : OtherNode(PropertiesOf(v)[i][2])
  \/ /\ IsArraySchema(v)
     /\ OtherNode(OwnValue(v, K("items")))

\* C26: the expander returns every node that is not a reference, not an
\* object-typed mapping with properties and not an array-typed mapping with
\* items as it is and raises no error: a schema that is such a node, or
\* whose properties or items are such nodes (scalars, null, mappings of
\* another shape), resolves successfully to itself.
C26_OthersUnchanged ==
  (/\ Computes
   /\ last.op = "resolveSchema" => HasOwn(Scanned(document), last.target)
   /\ TargetOf(document, RootPointer).found
   /\ OnlyOtherNodes(TargetOf(document, RootPointer).node))
  => /\ last.returns
     /\ last.result.success
     /\ last.result.schema = TargetOf(document, RootPointer).node

RECURSIVE CycleFree(_, _, _)
\* no chain of references that starts inside node leads back to a schema
\* that is being expanded (the pointers of expanding); an absent target ends
\* a chain
CycleFree(doc, node, expanding) ==
  \A r \in RefsIn(node) :
    /\ r \notin expanding
    /\ TargetOf(doc, r).found
         => CycleFree(doc, TargetOf(doc, r).node, expanding \cup {r})

\* C27: circularReferences is non-empty only if the reference graph
\* reachable from the requested schema holds a cycle: when no chain of
\* references leads back to a schema that is being expanded, a successful
\* result has no diagnostic, absent reference targets or not.
C27_OnlyRealCycles ==
  (Expanded /\ CycleFree(document, TargetOf(document, RootPointer).node, {RootPointer}))
    => last.result.circularReferences = <<>>

\* every schema of doc lives under components/schemas, every reference
\* anywhere in them points to a schema there, and no chain of references
\* returns to where it began
Conforming(doc) ==
  /\ ContainerKeys(Definitions(doc)) = {}
  /\ \A n \in ContainerKeys(ComponentsSchemas(doc)) :
       /\ \A r \in RefsIn(OwnValue(ComponentsSchemas(doc), n)) :
            /\ startsWith(r, <<"#", "/">> \o ComponentsPrefix)
            /\ NameOf(r) \in ContainerKeys(ComponentsSchemas(doc))
       /\ ChainWithin(doc, OwnValue(ComponentsSchemas(doc), n),
                      Cardinality(ContainerKeys(ComponentsSchemas(doc))))

\* C28: on a document whose schemas all live under components/schemas,
\* whose references all point to schemas there and whose reference graph is
\* acyclic, and with maxDepth at least the length of the longest chain of
\* references, resolveSchema(name).dependencies is name followed by
\* getDependencies(name), element for element.
C28_SameDependencies ==
  (/\ last.op = "resolveSchema"
   /\ ~last.hit
   /\ Conforming(document)
   /\ last.target \in ContainerKeys(ComponentsSchemas(document))
   /\ ChainWithin(document, OwnValue(ComponentsSchemas(document), last.target),
                  last.maxDepth))
  => With(getDependencies(document, last.target),
       LAMBDA g : /\ last.returns
                  /\ ~g.threw
                  /\ last.result.dependencies = <<last.target>> \o g.value.a)

\* the step lets the call c fail at the directory read
RejectsAtReaddir(c) ==
  calls[c].pc = "readdir" /\ calls'[c].pc = "done" /\ calls'[c].threw

\* C29: if reading the swagger directory fails, scanSwaggers rejects with
\* 'Failed to scan swagger files' and swaggers, parsers and lastScanTime are
\* what they were before the call: they change neither while the call waits
\* for the directory (no other call running) nor when it rejects; and a
\* loadSwagger call for a name parsers holds resolves with that parser.
C29_ScanFailureKeeps ==
  [][\A c \in DOMAIN calls :
       /\ RejectsAtReaddir(c) =>
            /\ calls'[c].error = ScanFailedMessage
            /\ calls'[c].value = Undefined
       /\ (/\ calls'[c].alone
           /\ \/ calls[c].pc = "free" /\ calls'[c].pc = "readdir"
              \/ calls[c].pc = "readdir" /\ calls'[c].pc = "readdir"
              \/ RejectsAtReaddir(c)) =>
            /\ swaggers' = swaggers
            /\ parsers' = parsers
            /\ lastScanTime' = lastScanTime
       /\ (/\ calls[c].pc = "free"
           /\ calls'[c].op = "loadSwagger"
           /\ MapHas(parsers, calls'[c].swaggerName)) =>
            /\ calls'[c].pc = "done"
            /\ ~calls'[c].threw
            /\ calls'[c].value = MapGet(parsers', calls'[c].swaggerName)]_vars

\* C29 happens: a scanSwaggers call made after an earlier scan had filled the
\* maps, with no other call running, was rejected at the directory read, and
\* the parsers of the earlier scan are still there
C29_Witness ==
  \E c \in DOMAIN calls :
    /\ calls[c].op = "scanSwaggers"
    /\ calls[c].pc = "done"
    /\ calls[c].threw
    /\ calls[c].error = ScanFailedMessage
    /\ calls[c].alone
    /\ lastScanTime > 0
    /\ MapHas(parsers, "swagger-one")

(***************************************************************************)
(* getApiInfo (mcp/tools/getApiInfo.ts).  The tool loads the parser of the *)
(* named swagger through the manager, looks the operation up, and expands  *)
(* the schemas of its request body, responses and parameters with a        *)
(* SchemaResolver it creates for the call.                                 *)
(***************************************************************************)
\* the default of maxDepth at line 63
ApiMaxDepth == 20

\* the calls of resolveSchemaRecursively the model nests before it gives a
\* call up as not returning
ExpandLimit == 24

RECURSIVE Nest(_, _)
\* leaf inside n array schemas
Nest(n, leaf) == IF n = 0 THEN leaf ELSE ArrayOf(Nest(n - 1, leaf))

\* { content: { 'application/json': { schema } } }
JsonContent(schema) ==
  <<K("content"), Obj(<< <<K("application/json"), Obj(<< <<K("schema"), schema>> >>)>> >>)>>

Described(text) == <<K("description"), Str(K(text))>>

\* an operation with a request body and responses
Operation(requestSchema, responses) ==
  Obj(<< <<K("requestBody"), Obj(<<JsonContent(requestSchema)>>)>>,
         <<K("responses"), Obj(responses)>> >>)

\* an operation with parameters and responses
Query(parameters, responses) ==
  Obj(<< <<K("parameters"), Arr(parameters)>>, <<K("responses"), Obj(responses)>> >>)

\* a response of an OpenAPI 3 document, and one without content
Response(code, schema) == <<K(code), Obj(<<Described("OK"), JsonContent(schema)>>)>>
Empty(code) == <<K(code), Obj(<<Described("Nothing")>>)>>

\* a query parameter and a Swagger 2 body parameter
QueryParameter(schema) ==
  Obj(<< <<K("name"), Str(K("filter"))>>, <<K("in"), Str(K("query"))>>,
         <<K("schema"), schema>> >>)
BodyParameterOf(schema) ==
  Obj(<< <<K("name"), Str(K("body"))>>, <<K("in"), Str(K("body"))>>,
         <<K("schema"), schema>> >>)

\* the schemas of doc with info and with the operations of /items
Api(doc, operations) ==
  Obj(WithOwn(doc, K("paths"), Obj(<< <<K("/items"), Obj(operations)>> >>)).e
        \o <<InfoOf(Version1)>>)

\* User -> Profile -> Settings behind a request body, responses, a
\* parameter, and a response whose schema does not exist
ApiChain ==
  Api(DocChain,
      << <<K("get"), Query(<<QueryParameter(ComponentRef(K("Settings")))>>,
                           <<Response("200", ArrayOf(ComponentRef(K("User"))))>>)>>,
         <<K("post"), Operation(ComponentRef(K("User")),
                                <<Response("201", ComponentRef(K("Profile"))),
                                  Empty("404")>>)>>,
         <<K("put"), Operation(ComponentRef(K("Settings")),
                               <<Response("200", ComponentRef(K("Missing")))>>)>> >>)

\* schemas on cycles
ApiCircular ==
  Api(DocCircular,
      << <<K("get"), Query(<<>>, <<Response("200", ComponentRef(K("CircularA")))>>)>>,
         <<K("post"), Operation(ComponentRef(K("Tree")), <<Empty("204")>>)>> >>)

\* a Swagger 2 document: body parameter, schema directly under the response
ApiSwagger2 ==
  Api(DocSwagger2,
      << <<K("post"),
           Query(<<BodyParameterOf(DefinitionRef(K("Order")))>>,
                 << <<K("200"), Obj(<<Described("OK"),
                                      <<K("schema"), DefinitionRef(K("Item"))>> >>)>> >>)>> >>)

\* a schema with a null property, an untagged mapping, a repeated reference
ApiShapes ==
  Api(DocShapes,
      << <<K("get"), Query(<<>>, <<Response("200", ComponentRef(K("Pair")))>>)>>,
         <<K("post"), Operation(ComponentRef(K("Loose")),
                                <<Response("200", ComponentRef(K("List")))>>)>>,
         <<K("put"), Operation(ComponentRef(K("Nullable")), <<Empty("204")>>)>> >>)

\* a reference ApiMaxDepth arrays deep in a response, and one a level less
\* deep in a request body
ApiDeep ==
  Api(DocChain,
      << <<K("get"), Query(<<>>, <<Response("200",
                                     Nest(ApiMaxDepth, ComponentRef(K("Settings"))))>>)>>,
         <<K("post"), Operation(Nest(ApiMaxDepth - 1, ComponentRef(K("Settings"))),
                                <<Empty("204")>>)>> >>)

\* the directories getApiInfo is called on: one swagger with operations, and
\* a second file that does not load
ApiDocs == {ApiChain, ApiCircular, ApiSwagger2, ApiShapes, ApiDeep}

ApiFileSystems == {FileSystem(JsonFile(d), NotJson) : d \in ApiDocs}

\* the arguments of getApiInfo
ApiNames   == {"swagger-one", "swagger-two"}
ApiPaths   == {"/items", "/missing"}
ApiMethods == {"get", "GET", "Post", "put", "delete"}

\* what stands in the output where a call of the resolver did not return
Unfinished == [t |-> "unfinished"]

\* resolver.resolveSchemaByRef(ref) with the default options, tabulated over
\* the documents of the model
ResolvedOnce ==
  [d \in ApiDocs |->
     [ref \in {PointerTo(Get(Scanned(d), n)) : n \in SchemaNames(d)} |->
        resolveSchemaByRef(d, EmptyCache, <<>>, ref, DefaultMaxDepth, TRUE)]]

\* resolver.resolveSchemaByRef(schema.$ref) at line 78.  The resolver lives
\* for one getApiInfo call and is only ever asked with the default options,
\* so an entry of its cache is the result of the same call made before
ResolveOnce(doc, ref) ==
  IF doc \in ApiDocs /\ ref \in DOMAIN ResolvedOnce[doc] THEN ResolvedOnce[doc][ref]
  ELSE resolveSchemaByRef(doc, EmptyCache, <<>>, ref, DefaultMaxDepth, TRUE)

\* mutant of DepthReached: the depth is never tested
DepthNeverReached(maxDepth, currentDepth) == FALSE

\* line 67
DepthReached(maxDepth, currentDepth) == currentDepth >= maxDepth

RECURSIVE resolveSchemaRecursively(_, _, _, _)

\* lines 79-82: the resolved schema is expanded further, or the reference
\* stays
FollowResolved(doc, schema, resolveResult, maxDepth, currentDepth) ==
  IF ~resolveResult.returns THEN Unfinished
  ELSE IF resolveResult.result.success /\ Truthy(resolveResult.result.schema)
  THEN resolveSchemaRecursively(doc, resolveResult.result.schema, maxDepth,
                                currentDepth + 1)
  ELSE schema

\* lines 60-93
resolveSchemaRecursively(doc, schema, maxDepth, currentDepth) ==
  IF DepthReached(maxDepth, currentDepth) THEN schema
  ELSE IF currentDepth >= ExpandLimit THEN Unfinished
  ELSE IF ~Truthy(schema) \/ schema.t \notin {"obj", "array"} THEN schema
  ELSE IF Truthy(Get(schema, K("$ref"))) /\ Get(schema, K("$ref")).t = "str"
  THEN FollowResolved(doc, schema, ResolveOnce(doc, Get(schema, K("$ref")).s),
                      maxDepth, currentDepth)
  ELSE IF schema.t = "array"
  THEN Arr([i \in 1..Len(schema.a) |->
              resolveSchemaRecursively(doc, schema.a[i], maxDepth, currentDepth + 1)])
  ELSE Obj([i \in 1..Len(schema.e) |->
              <<schema.e[i][1],
                resolveSchemaRecursively(doc, schema.e[i][2], maxDepth,
                                         currentDepth + 1)>>])

\* method.toLowerCase() and method.toUpperCase() on the method names of the
\* model
toLowerCase(w) ==
  CASE w = "GET" -> "get" [] w = "Post" -> "post" [] OTHER -> w

toUpperCase(w) ==
  CASE w \in {"get", "GET"} -> "GET"
    [] w \in {"post", "Post"} -> "POST"
    [] w = "put" -> "PUT"
    [] w = "delete" -> "DELETE"
    [] OTHER -> w

ApiNotFoundMessage(swaggerName, path, method) ==
  <<"API \"", toUpperCase(method), " ", path, "\" not found in swagger \"",
    swaggerName, "\"">>

RECURSIVE FirstMediaSchema(_, _)
\* lines 106-111 and 148-153: the schema of the first media type that has
\* one, null when none has
FirstMediaSchema(mediaTypes, i) ==
  IF i > Len(mediaTypes) THEN Null
  ELSE IF Truthy(Get(mediaTypes[i][2], K("schema")))
  THEN Get(mediaTypes[i][2], K("schema"))
  ELSE FirstMediaSchema(mediaTypes, i + 1)

\* Object.entries / Object.values of a value that may be no object
EntriesOf(v) == IF v.t = "obj" THEN v.e ELSE <<>>

\* the elements of a value that may be no array
ElementsOf(v) == IF v.t = "array" THEN v.a ELSE <<>>

\* line 116: operation.parameters.find((param) => param.in === 'body')
BodyParameter(parameters) ==
  IF \E i \in 1..Len(parameters) : Get(parameters[i], K("in")) = Str(K("body"))
  THEN parameters[CHOOSE i \in 1..Len(parameters) :
                    /\ Get(parameters[i], K("in")) = Str(K("body"))
                    /\ \A j \in 1..(i - 1) : Get(parameters[j], K("in")) # Str(K("body"))]
  ELSE Undefined

\* lines 102-120: the request schema of an operation, null when it has none
FoundRequestSchema(operation) ==
  IF /\ Truthy(Get(Get(operation, K("requestBody")), K("content")))
     /\ Truthy(FirstMediaSchema(
                 EntriesOf(Get(Get(operation, K("requestBody")), K("content"))), 1))
  THEN FirstMediaSchema(
         EntriesOf(Get(Get(operation, K("requestBody")), K("content"))), 1)
  ELSE IF /\ Truthy(Get(operation, K("parameters")))
          /\ Truthy(Get(BodyParameter(ElementsOf(Get(operation, K("parameters")))),
                        K("schema")))
  THEN Get(BodyParameter(ElementsOf(Get(operation, K("parameters")))), K("schema"))
  ELSE Null

\* lines 98-128
resolveRequestBodySchema(doc, operation) ==
  IF Truthy(FoundRequestSchema(operation))
  THEN resolveSchemaRecursively(doc, FoundRequestSchema(operation), ApiMaxDepth, 0)
  ELSE Undefined

\* lines 144-158: the schema of one response, null when it has none
FoundResponseSchema(response) ==
  IF Truthy(Get(response, K("content")))
  THEN FirstMediaSchema(EntriesOf(Get(response, K("content"))), 1)
  ELSE IF Truthy(Get(response, K("schema"))) THEN Get(response, K("schema"))
  ELSE Null

\* lines 160-169
ResponseEntry(doc, response) ==
  IF Truthy(FoundResponseSchema(response))
  THEN Obj(<< <<K("description"), Get(response, K("description"))>>,
              <<K("schema"),
                resolveSchemaRecursively(doc, FoundResponseSchema(response),
                                         ApiMaxDepth, 0)>> >>)
  ELSE response

\* lines 133-173
resolveResponseSchemas(doc, operation) ==
  IF ~Truthy(Get(operation, K("responses"))) THEN Obj(<<>>)
  ELSE Obj([i \in 1..Len(EntriesOf(Get(operation, K("responses")))) |->
              <<EntriesOf(Get(operation, K("responses")))[i][1],
                ResponseEntry(doc, EntriesOf(Get(operation, K("responses")))[i][2])>>])

\* lines 178-185
resolveParameterSchemas(doc, parameters) ==
  SelectSeq([i \in 1..Len(parameters) |->
               IF Get(parameters[i], K("in")) = Str(K("body")) THEN Null
               ELSE resolveSchemaRecursively(doc, parameters[i], ApiMaxDepth, 0)],
            Truthy)

\* lines 279-281 of buildEnhancedMetadata; the parameter and status code
\* statistics, the complexity figures and the time stamp are left out
Metadata(parameters, requestBodySchema, responseSchemas) ==
  [hasRequestBody |-> Truthy(requestBodySchema),
   responseCount |-> Len(responseSchemas.e),
   parameterCount |-> Len(parameters)]

NoMetadata == [hasRequestBody |-> FALSE, responseCount |-> 0, parameterCount |-> 0]

\* a GetApiInfoOutput
ApiOutput(success, swaggerName, path, method, operation, parameters, requestBodySchema, responseSchemas, metadata, error) ==
  [success |-> success, swaggerName |-> swaggerName, path |-> path,
   method |-> method, operation |-> operation, parameters |-> parameters,
   requestBodySchema |-> requestBodySchema, responseSchemas |-> responseSchemas,
   metadata |-> metadata, error |-> error]

\* the result of lines 316-366 and 396-404
ApiFailure(swaggerName, path, method, msg) ==
  ApiOutput(FALSE, swaggerName, path, method, Undefined, Arr(<<>>), Undefined,
            Obj(<<>>), NoMetadata, msg)

\* lines 370-392
ApiSuccess(doc, swaggerName, path, method, operation) ==
  ApiOutput(TRUE, swaggerName, path, method, operation,
            Arr(resolveParameterSchemas(doc, ElementsOf(Get(operation, K("parameters"))))),
            resolveRequestBodySchema(doc, operation),
            resolveResponseSchemas(doc, operation),
            Metadata(ElementsOf(Get(operation, K("parameters"))),
                     resolveRequestBodySchema(doc, operation),
                     resolveResponseSchemas(doc, operation)),
            <<>>)

\* lines 328-392 for the parser loadSwagger resolved to; method is in lower
\* case
Describe(doc, swaggerName, path, method) ==
  IF ~Truthy(Get(Get(doc, K("paths")), K(path)))
     \/ ~Truthy(Get(Get(Get(doc, K("paths")), K(path)), K(method)))
  THEN ApiFailure(swaggerName, path, method,
                  ApiNotFoundMessage(swaggerName, path, method))
  ELSE ApiSuccess(doc, swaggerName, path, method,
                  Get(Get(Get(doc, K("paths")), K(path)), K(method)))
RECURSIVE LoadAll(_, _, _, _, _)
\* the loop of SwaggerManager.ts lines 36-62 over the files from i on
LoadAll(fs, swaggerFiles, i, sw, ps) ==
  IF i > Len(swaggerFiles) THEN [swaggers |-> sw, parsers |-> ps]
  ELSE IF LoadFile(swaggerFiles[i], fs[swaggerFiles[i]]).threw
  THEN LoadAll(fs, swaggerFiles, i + 1, sw, ps)
  ELSE LoadAll(fs, swaggerFiles, i + 1,
               MapSet(sw, swaggerFiles[i], LoadFile(swaggerFiles[i], fs[swaggerFiles[i]]).value.info),
               MapSet(ps, swaggerFiles[i], LoadFile(swaggerFiles[i], fs[swaggerFiles[i]]).value.parser))

\* what loadSwagger(swaggerName) does when no other call runs beside it:
\* the fields of the manager after it and the parser it resolves to or the
\* error it rejects with
Loaded(threw, value, error, sw, ps, scanned) ==
  [threw |-> threw, value |-> value, error |-> error, swaggers |-> sw,
   parsers |-> ps, lastScanTime |-> scanned]

\* SwaggerManager.ts lines 87-94
Lookedup(swaggerName, sw, ps, scanned) ==
  IF MapHas(ps, swaggerName)
  THEN Loaded(FALSE, MapGet(ps, swaggerName), <<>>, sw, ps, scanned)
  ELSE Loaded(TRUE, Undefined, SwaggerNotFoundMessage(swaggerName), sw, ps, scanned)

\* SwaggerManager.ts lines 31-67 run to the end
Rescanned(swaggerName, fs, t) ==
  Lookedup(swaggerName,
           LoadAll(fs, scanSwaggerFiles(fs), 1, <<>>, <<>>).swaggers,
           LoadAll(fs, scanSwaggerFiles(fs), 1, <<>>, <<>>).parsers, t)

\* SwaggerManager.ts lines 77-95 with the scanSwaggers call of line 85;
\* failed: the directory cannot be read
loadSwaggerAlone(swaggerName, fs, sw, ps, scanned, t, failed) ==
  IF MapHas(ps, swaggerName) \/ UseCache(Len(sw), t, scanned)
  THEN Lookedup(swaggerName, sw, ps, scanned)
  ELSE IF failed
  THEN Loaded(TRUE, Undefined, ScanFailedMessage, sw, ps, scanned)
  ELSE Rescanned(swaggerName, fs, t)

\* lines 304-405 once loadSwagger has settled
getApiInfo(loaded, swaggerName, path, method) ==
  IF loaded.threw
  THEN ApiFailure(swaggerName, path, toLowerCase(method), loaded.error)
  ELSE Describe(loaded.value.document, swaggerName, path, toLowerCase(method))

RECURSIVE Finished(_)
\* every call of the resolver behind v returned
Finished(v) ==
  /\ v.t # "unfinished"
  /\ v.t = "obj" => \A i \in 1..Len(v.e) : Finished(v.e[i][2])
  /\ v.t = "array" => \A i \in 1..Len(v.a) : Finished(v.a[i])

\* getApiInfo calls, one after the other, on a manager that has scanned
\* nothing yet
ApiInit ==
  /\ document = DocChain
  /\ cache = EmptyCache
  /\ currentPath = <<>>
  /\ last = NoCall
  /\ files \in ApiFileSystems
  /\ swaggers = <<>>
  /\ parsers = <<>>
  /\ lastScanTime = 0
  /\ now = CACHE_DURATION
  /\ calls = <<>>

\* getApiInfo({swaggerName, path, method}, swaggerManager), from the call to
\* the result
GetApiInfo ==
  /\ Idle
  /\ \E swaggerName \in ApiNames, path \in ApiPaths, method \in ApiMethods,
        failed \in BOOLEAN :
       \E l \in {loadSwaggerAlone(swaggerName, files, swaggers, parsers,
                                  lastScanTime, now, failed)} :
         \E out \in {getApiInfo(l, swaggerName, path, method)} :
           /\ failed => l.error = ScanFailedMessage
           /\ swaggers' = l.swaggers
           /\ parsers' = l.parsers
           /\ lastScanTime' = l.lastScanTime
           /\ last' = Call("getApiInfo", <<swaggerName, path, method>>, ApiMaxDepth,
                           TRUE, FALSE,
                           /\ Finished(out.requestBodySchema)
                           /\ Finished(out.responseSchemas)
                           /\ Finished(out.parameters),
                           FALSE, Undefined, out, <<>>)
  /\ UNCHANGED <<document, cache, currentPath, files, now, calls>>

ApiNext ==
  \/ GetApiInfo
  \/ Return

ApiSpec == ApiInit /\ [][ApiNext]_vars

(***************************************************************************)
(* Claims about getApiInfo.                                                *)
(***************************************************************************)
\* the last call is a getApiInfo call that found its operation
OperationFound ==
  /\ last.op = "getApiInfo"
  /\ MapHas(parsers, last.target[1])
  /\ Truthy(Get(Get(Get(MapGet(parsers, last.target[1]).document, K("paths")),
                    K(last.target[2])), K(toLowerCase(last.target[3]))))

\* the document and the operation of the last call
ApiDocument == MapGet(parsers, last.target[1]).document
ApiOperation ==
  Get(Get(Get(ApiDocument, K("paths")), K(last.target[2])), K(toLowerCase(last.target[3])))

\* the schemas getApiInfo finds in the request body and the responses of an
\* operation
FoundSchemas(operation) ==
  {FoundRequestSchema(operation)} \cup
    {FoundResponseSchema(EntriesOf(Get(operation, K("responses")))[i][2]) :
       i \in 1..Len(EntriesOf(Get(operation, K("responses"))))}

RECURSIVE HoldsRef(_)
\* some object at any nesting level of v, through mappings and arrays, has
\* a string $ref
HoldsRef(v) ==
  \/ /\ v.t = "obj"
     /\ \/ Get(v, K("$ref")).t = "str"
        \/ \E i \in 1..Len(v.e) : HoldsRef(v.e[i][2])
  \/ /\ v.t = "array"
     /\ \E i \in 1..Len(v.a) : HoldsRef(v.a[i])

\* the references of the operation's request body and response schemas
\* reach only schemas that exist, through an acyclic graph
AcyclicOperation(doc, operation) ==
  \A s \in FoundSchemas(operation) :
    ChainWithin(doc, s, Cardinality(SchemaNames(doc)))

\* C21: for an operation whose request-body and response schemas reference
\* only existing schemas through an acyclic reference graph, getApiInfo
\* returns success = true, and neither requestBodySchema nor any entry of
\* responseSchemas holds, at any nesting level, an object with a string
\* $ref.
C21_NoRefRemains ==
  (OperationFound /\ AcyclicOperation(ApiDocument, ApiOperation)) =>
    /\ last.returns
    /\ last.value.success
    /\ ~HoldsRef(last.value.requestBodySchema)
    /\ ~HoldsRef(last.value.responseSchemas)

RECURSIVE Unfolded(_, _, _, _)
\* out is schema with the depth counted as C30 says: one more on every
\* reference hop and on every structural level, and the node reached at
\* ApiMaxDepth left as it is
Unfolded(doc, schema, out, depth) ==
  IF depth >= ApiMaxDepth \/ schema.t \notin {"obj", "array"} THEN out = schema
  ELSE IF schema.t = "array"
  THEN /\ out.t = "array"
       /\ Len(out.a) = Len(schema.a)
       /\ \A i \in 1..Len(schema.a) : Unfolded(doc, schema.a[i], out.a[i], depth + 1)
  ELSE IF ~Truthy(Get(schema, K("$ref"))) \/ Get(schema, K("$ref")).t # "str"
  THEN /\ out.t = "obj"
       /\ Len(out.e) = Len(schema.e)
       /\ \A i \in 1..Len(schema.e) :
            /\ out.e[i][1] = schema.e[i][1]
            /\ Unfolded(doc, schema.e[i][2], out.e[i][2], depth + 1)
  ELSE IF /\ ResolveOnce(doc, Get(schema, K("$ref")).s).result.success
          /\ Truthy(ResolveOnce(doc, Get(schema, K("$ref")).s).result.schema)
  THEN Unfolded(doc, ResolveOnce(doc, Get(schema, K("$ref")).s).result.schema, out,
                depth + 1)
  ELSE out = schema

\* the responses of the last call's operation, and what the call returned
\* for them
ApiResponses == EntriesOf(Get(ApiOperation, K("responses")))

\* C30: getApiInfo terminates for every operation and every document, also
\* when schemas lie on reference cycles: every call returns, and what it
\* returns for the request body and for each response is the schema found
\* there expanded with a depth that grows by one on every reference hop and
\* on every structural level, the node reached at depth 20 returned
\* unchanged.
C30_Terminates ==
  last.op = "getApiInfo" =>
    /\ last.returns
    /\ OperationFound =>
         /\ last.value.success
         /\ Truthy(FoundRequestSchema(ApiOperation)) =>
              Unfolded(ApiDocument, FoundRequestSchema(ApiOperation),
                       last.value.requestBodySchema, 0)
         /\ Len(last.value.responseSchemas.e) = Len(ApiResponses)
         /\ \A i \in 1..Len(ApiResponses) :
              Truthy(FoundResponseSchema(ApiResponses[i][2])) =>
                Unfolded(ApiDocument, FoundResponseSchema(ApiResponses[i][2]),
                         Get(last.value.responseSchemas.e[i][2], K("schema")), 0)

\* a call returned for an operation whose response schema lies on a
\* reference cycle, the expansion cut off where the depth reached 20
C30_Witness ==
  /\ OperationFound
  /\ last.returns
  /\ ApiDocument = ApiCircular
  /\ ~AcyclicOperation(ApiDocument, ApiOperation)
  /\ HoldsRef(last.value.responseSchemas)

====
